---- MODULE Spec2Model ----
(***************************************************************************)
(* Model of pyscf/pbc/df/gdf_builder.py: the compensated-charge Gaussian   *)
(* density-fitting builder (_CCGDFBuilder), the model-charge basis, the    *)
(* fused cell and its fuse operator, the two-centre metric, the j3c        *)
(* loader and the mesh/eta selection of build().                           *)
(*                                                                         *)
(* Numbers: array entries are exact complex integers <<re, im>>; index     *)
(* arithmetic is the code's.  Arrays are 0-based like numpy's.             *)
(***************************************************************************)
EXTENDS Integers, Sequences, FiniteSets, TLC

VARIABLES
    \* ---- fuse_auxcell and calls of the fuse closure
    fpc,            \* position of the caller: "aux", "fused", "input", "called"
    auxcell,        \* the auxiliary cell handed to fuse_auxcell
    chgcell,        \* make_modchg_basis's result (local of fuse_auxcell)
    fused_cell,     \* fuse_auxcell's first result
    fuse,           \* fuse_auxcell's second result: the closure's captured tables
    Lpq,            \* the caller's array object handed to fuse
    Lpq0,           \* its contents before the first call
    axis,           \* the axis the caller passes
    rets,           \* what the caller holds for the calls so far, oldest first
    \* ---- get_2c2e and add_ft_j3c: the loops over reciprocal-space blocks
    gpc,            \* "idle", "block", "sym", "done" (get_2c2e); "ft" (add_ft_j3c)
    uniq_kpts,      \* get_2c2e's argument: k-points, 0 the zone centre
    j2c,            \* get_2c2e's list j2c, one matrix per k-point
    j2c0,           \* what pbc_intor('int2c2e') returned (line 143)
    kidx,           \* the loop variable k of line 152
    blk_p0,         \* p0 of the next block of the grid loop
    blksize,        \* the block size of the loop of line 154
    ngrids,         \* Gv.shape[0]
    j3cR,           \* add_ft_j3c's real buffers, one per k-pair
    j3cI,           \* add_ft_j3c's imaginary buffers, None where absent
    j3c0,           \* the buffers before the first add_ft_j3c call
    \* ---- get_2c2e's block size (lines 149-155)
    max_memory,     \* self.max_memory, MB
    cur_memory,     \* lib.current_memory()[0], MB
    fused_nao,      \* fused_cell.nao_nr()
    blocks,         \* the blocks (p0, p1) the loop of line 154 has visited for k
    \* ---- the builder's configuration and build()
    bpc,            \* "new" after __init__, "built" after build(), "reset" after reset()
    cell,           \* self.cell: [dimension, mesh, low_dim_ft_type, eta_guess]
    eta,            \* self.eta: Unset or <<value>>
    mesh,           \* self.mesh: Unset or <<n1, n2, n3>>
    ke_cutoff,      \* self.ke_cutoff: Unset or <<value>>
    cfg0,           \* eta, mesh and ke_cutoff when the last build() began
    cfg_new,        \* eta, mesh and ke_cutoff of the new builder, as the caller set them
    branch,         \* the branch of lines 97-105 the last build() took
    was_reset,      \* reset() has been called on this builder
    rs_auxcell,     \* self.rs_auxcell (line 114)
    rs_fused_cell,  \* self.rs_fused_cell (line 116)
    \* ---- gen_j3c_loader and the closure load_j3c
    lpc,            \* "gen", "loader" (closure made), "loaded" (closure called)
    loader_kpt,     \* the argument kpt of gen_j3c_loader
    kpt_ij_idx,     \* the k-pair indices kk of the batch
    h5group,        \* [j3cR, j3cI]: kk -> stored dataset, rows are pair columns
    vbar,           \* what load_j3c captured: NoneArr or the vector
    vbar_idx,       \* the rows where vbar is not zero
    cols,           \* (col0, col1) of the last call of load_j3c
    loaded,         \* (j3cR, j3cI) the last call returned
    \* ---- solve_cderi
    spc,            \* "call" before solve_cderi, "done" after it
    cd_j2c,         \* the argument [j2c, j2c_negative, j2ctag]
    sj3cR,          \* the argument j3cR, an array the caller keeps
    sj3cI,          \* the argument j3cI, NoneArr for None
    sj3c0,          \* (j3cR, j3cI) as they were handed in
    cderi,          \* the first tensor returned
    cderi_negative, \* the second tensor returned, NoneArr for None
    \* ---- outcore_auxe2
    apc,            \* "ready", "inside" the delegated call, "returned", "raised", "failed"
    exclude_d_aux,  \* self.exclude_d_aux
    env0            \* auxcell and rs_auxcell as they were before the call

fuseVars == <<fpc, auxcell, chgcell, fused_cell, fuse, Lpq, Lpq0, axis, rets>>
gridVars == <<gpc, uniq_kpts, j2c, j2c0, kidx, blk_p0, blksize, ngrids, j3cR, j3cI, j3c0>>
blkVars == <<max_memory, cur_memory, fused_nao, blocks>>
buildVars == <<bpc, cell, eta, mesh, ke_cutoff, cfg0, cfg_new, branch, was_reset,
               rs_auxcell, rs_fused_cell>>
loadVars == <<lpc, loader_kpt, kpt_ij_idx, h5group, vbar, vbar_idx, cols, loaded>>
solveVars == <<spc, cd_j2c, sj3cR, sj3cI, sj3c0, cderi, cderi_negative>>
auxe2Vars == <<apc, exclude_d_aux, env0>>
vars == <<fuseVars, gridVars, blkVars, buildVars, loadVars, solveVars, auxe2Vars>>
\* What the actions of one part leave alone.
notFuse == <<gridVars, blkVars, buildVars, loadVars, solveVars, auxe2Vars>>
notGrid == <<blkVars, buildVars, loadVars, solveVars, auxe2Vars>>
notBlk == <<fuseVars, buildVars, loadVars, solveVars, auxe2Vars>>
notBuild == <<gridVars, blkVars, loadVars, solveVars, auxe2Vars>>
notLoad == <<fuseVars, gridVars, blkVars, buildVars, solveVars, auxe2Vars>>
notAuxe2 == <<gridVars, blkVars, loadVars, solveVars>>
notSolve == <<fuseVars, gridVars, blkVars, buildVars, loadVars, auxe2Vars>>

None == "None"
\* An attribute that holds None where it otherwise holds a number or a list.
Unset == <<>>

(***************************************************************************)
(* Bounds of the model.                                                    *)
(***************************************************************************)
NAtm == 2          \* atoms of the auxiliary cell
MaxL == 2          \* largest angular momentum of an auxiliary shell
MaxCtr == 2        \* largest number of contractions of a shell
MaxShells == 2     \* shells of the auxiliary cell
MaxCols == 2       \* the other axis of a 2-D array handed to fuse
MaxCalls == 2      \* calls of fuse on one array object
MaxNaux == 4       \* auxiliary functions of a cell whose metric is built
MaxKpts == 2       \* k-points handed to get_2c2e, k-pairs of a j3c batch
MaxGrid == 3       \* reciprocal-space grid points of the metric and j3c loops

(***************************************************************************)
(* Complex integers.                                                       *)
(***************************************************************************)
CSub(a, b) == <<a[1] - b[1], a[2] - b[2]>>
CAdd(a, b) == <<a[1] + b[1], a[2] + b[2]>>
CMul(a, b) == <<a[1] * b[1] - a[2] * b[2], a[1] * b[2] + a[2] * b[1]>>
CConj(a) == <<a[1], -a[2]>>
CZero == <<0, 0>>

(***************************************************************************)
(* Cells.  A cell is [natm, cart, bas]; bas is the sequence of its shells, *)
(* shell i of the code being bas[i+1].  A shell is                         *)
(* [atom, l, nprim, nctr, es, cs]: es its exponents, cs its primitive      *)
(* contraction coefficients (cs[i][n], primitive i, contraction n).        *)
(***************************************************************************)
\* Number of angular components of a shell: 2l+1 spherical, (l+1)(l+2)/2 Cartesian.
NAng(l, cart) == IF cart THEN ((l + 1) * (l + 2)) \div 2 ELSE 2 * l + 1

\* cell.ao_loc_nr(cart)[i]: the first basis function of shell i, i in 0..nbas.
RECURSIVE AoLoc(_, _, _)
AoLoc(bas, cart, i) ==
    IF i = 0 THEN 0
    ELSE AoLoc(bas, cart, i - 1) + NAng(bas[i].l, cart) * bas[i].nctr

NaoNr(acell) == AoLoc(acell.bas, acell.cart, Len(acell.bas))

RECURSIVE SortedSeq(_)
SortedSeq(S) ==
    IF S = {} THEN <<>>
    ELSE LET m == CHOOSE x \in S : \A y \in S : x <= y
         IN <<m>> \o SortedSeq(S \ {m})

\* set(auxcell._bas[auxcell._bas[:,ATOM_OF]==ia, ANG_OF]), in the order the
\* loop of line 343 visits it (a set of small ints iterates in increasing order).
AngsOfAtomNoSet(bas, ia) ==
    LET on == SelectSeq(bas, LAMBDA sh : sh.atom = ia)
    IN [k \in 1..Len(on) |-> on[k].l]
AngsOfAtom(bas, ia) ==
    SortedSeq({bas[i].l : i \in {j \in 1..Len(bas) : bas[j].atom = ia}})

\* The row appended at line 344: [ia, l, nprim=1, nctr=1, 0, ptr_eta, ptr, 0],
\* with the exponent and coefficient its pointers name (lines 334 and 345).
ChgShell(ia, l, smooth_eta) ==
    [atom |-> ia, l |-> l, nprim |-> 1, nctr |-> 1,
     es |-> <<smooth_eta>>, cs |-> <<<<"half_sph_norm/gaussian_int", 2 * l + 2>>>>]

RECURSIVE ChgBasFrom(_, _, _)
ChgBasFrom(acell, smooth_eta, ia) ==
    IF ia >= acell.natm THEN <<>>
    ELSE LET ls == AngsOfAtom(acell.bas, ia)
         IN [k \in 1..Len(ls) |-> ChgShell(ia, ls[k], smooth_eta)]
            \o ChgBasFrom(acell, smooth_eta, ia + 1)

make_modchg_basis(acell, smooth_eta) ==
    [acell EXCEPT !.bas = ChgBasFrom(acell, smooth_eta, 0)]

\* gto.conc_env on the shells: those of the first cell, then those of the second.
conc_env(cell1, cell2) ==
    [cell1 EXCEPT !.bas = cell1.bas \o cell2.bas]

ModchgCols == 8

\* The loop of lines 374-377 from shell i on, over the table built so far.
RECURSIVE OffsetLoopShellIndex(_, _, _)
OffsetLoopShellIndex(tab, chg, i) ==
    IF i >= Len(chg.bas) THEN tab
    ELSE OffsetLoopShellIndex([tab EXCEPT ![chg.bas[i + 1].atom][chg.bas[i + 1].l] = i],
                              chg, i + 1)
RECURSIVE OffsetLoop(_, _, _)
OffsetLoop(tab, chg, i) ==
    IF i >= Len(chg.bas) THEN tab
    ELSE LET ia == chg.bas[i + 1].atom
             l == chg.bas[i + 1].l
         IN OffsetLoop([tab EXCEPT ![ia][l] = AoLoc(chg.bas, chg.cart, i)], chg, i + 1)

\* fuse_auxcell: the fused cell and what the fuse closure captures
\* (auxcell, naux, aux_loc through auxcell, modchg_offset).
fuse_auxcell(acell, eta_) ==
    LET chg == make_modchg_basis(acell, eta_)
        tab0 == [ia \in 0..(chg.natm - 1) |-> [l \in 0..(ModchgCols - 1) |-> -1]]
    IN [chgcell |-> chg,
        fused_cell |-> conc_env(acell, chg),
        fuse |-> [auxcell |-> acell,
                  naux |-> NaoNr(acell),
                  modchg_offset |-> OffsetLoop(tab0, chg, 0)]]

(***************************************************************************)
(* Arrays.  [ndim, d]: d maps 0..n-1 to entries (ndim = 1) or to rows,     *)
(* each a map from 0..m-1 to entries (ndim = 2).  The arrays a caller      *)
(* hands to the fuse closure in SpecFuse also carry their dtype, "float64" *)
(* or "complex128"; a float64 array holds entries <<re, 0>>.  Only the     *)
(* Cartesian closure reads the dtype (lines 397-401).                      *)
(***************************************************************************)
NRows(A) == Cardinality(DOMAIN A.d)
NCols(A) == Cardinality(DOMAIN A.d[0])

\* A.T: a view, so that writing through it writes A.
Transpose(A) ==
    [A EXCEPT !.ndim = 2,
              !.d = [j \in 0..(NCols(A) - 1) |-> [i \in 0..(NRows(A) - 1) |-> A.d[i][j]]]]

\* x -= y on one row of an array of the given ndim.
RowSub(ndim, x, y) ==
    IF ndim = 1 THEN CSub(x, y) ELSE [j \in DOMAIN x |-> CSub(x[j], y[j])]

\* chgLpq[p0:p0+nd][k], chgLpq being the view Lpq[naux:] of line 429.
ChgRowWhole(cl, d, p0, k) == d[p0 + k]
ChgRow(cl, d, p0, k) == d[cl.naux + p0 + k]

\* The chunks of lib.prange(aux_loc[i], aux_loc[i+1], nd): row r of the shell
\* lies at position (r - aux_loc[i]) mod nd of its chunk.
InChunkFirst(r, c0, nd) == 0
InChunk(r, c0, nd) == (r - c0) % nd

\* Lines 430-437 (and 403-412): the loop over the auxiliary shells from shell i
\* on, writing the rows of the view Lpq[:naux] in place.  d holds all rows.
RECURSIVE FuseLoop(_, _, _, _)
FuseLoop(cl, ndim, d, i) ==
    IF i >= Len(cl.auxcell.bas) THEN d
    ELSE LET sh == cl.auxcell.bas[i + 1]
             p0 == cl.modchg_offset[sh.atom][sh.l]
             nd == NAng(sh.l, cl.auxcell.cart)
             c0 == AoLoc(cl.auxcell.bas, cl.auxcell.cart, i)
             c1 == AoLoc(cl.auxcell.bas, cl.auxcell.cart, i + 1)
         IN IF p0 >= 0
            THEN FuseLoop(cl, ndim,
                          [r \in DOMAIN d |->
                              IF c0 <= r /\ r < c1
                              THEN RowSub(ndim, d[r], ChgRow(cl, d, p0, InChunk(r, c0, nd)))
                              ELSE d[r]],
                          i + 1)
            ELSE FuseLoop(cl, ndim, d, i + 1)

\* np.empty: an entry never written holds whatever the allocation held.
Uninit == "uninitialized"
\* libcint's CINTc2s_ket_sph lies outside this file.  What the call of
\* lines 418-421 leaves at one position of Lpq_sph[s0:s1] is kept as the
\* call itself: the routine, its arguments l, npq * nctr and Lpq_cart, and
\* the position.
C2sOutside == "CINTc2s_ket_sph"
C2sKetSph(l, nket, cart, at) ==
    [fn |-> C2sOutside, l |-> l, nket |-> nket, cart |-> cart, at |-> at]

\* Row s of Lpq_sph after lines 403-421: for l < 2 the copy of line 415
\* (aux_loc_sph = aux_loc there), for l >= 2 what the call of lines 417-421
\* wrote, with npq doubled for a complex128 array (lines 401-402).
SphRow(cl, ndim, dtype, d, s) ==
    LET bas == cl.auxcell.bas
        hit == {i \in 0..(Len(bas) - 1) :
                  AoLoc(bas, FALSE, i) <= s /\ s < AoLoc(bas, FALSE, i + 1)}
        i == CHOOSE k \in hit : TRUE
        sh == bas[i + 1]
        c0 == AoLoc(bas, TRUE, i)
        c1 == AoLoc(bas, TRUE, i + 1)
        s0 == AoLoc(bas, FALSE, i)
        npq0 == IF ndim = 1 THEN 1 ELSE Cardinality(DOMAIN d[0])
        npq == IF dtype = "complex128" THEN npq0 * 2 ELSE npq0
        Lpq_cart == [r \in 0..(c1 - c0 - 1) |-> d[c0 + r]]
    IN IF cl.modchg_offset[sh.atom][sh.l] < 0 THEN Uninit
       ELSE IF sh.l < 2 THEN d[c0 + (s - s0)]
       ELSE IF ndim = 1 THEN C2sKetSph(sh.l, npq * sh.nctr, Lpq_cart, <<s - s0>>)
       ELSE [q \in DOMAIN d[0] |-> C2sKetSph(sh.l, npq * sh.nctr, Lpq_cart, <<s - s0, q>>)]

FuseArgCopy(cl, A, ax) == A
\* The array the caller handed in, after the call: written in place through
\* the views of lines 427-429.
FuseArg(cl, A, ax) ==
    IF ax = 1 /\ A.ndim = 2
    THEN Transpose([A EXCEPT !.d = FuseLoop(cl, 2, Transpose(A).d, 0)])
    ELSE [A EXCEPT !.d = FuseLoop(cl, A.ndim, A.d, 0)]

\* The rows the spherical closure returns: the view Lpq[:naux].
Leading(cl, d) == [r \in 0..(cl.naux - 1) |-> d[r]]

\* The rows the Cartesian closure returns: the new array Lpq_sph.
LeadingSph(cl, ndim, dtype, d) ==
    [s \in 0..(AoLoc(cl.auxcell.bas, FALSE, Len(cl.auxcell.bas)) - 1) |->
        SphRow(cl, ndim, dtype, d, s)]

\* What fuse(Lpq, axis) returns (lines 391-424 Cartesian, 426-440 spherical).
FuseRet(cl, A, ax) ==
    LET T == ax = 1 /\ A.ndim = 2
        W == IF T THEN Transpose(A) ELSE A
        d1 == FuseLoop(cl, W.ndim, W.d, 0)
        R == [A EXCEPT !.d = IF cl.auxcell.cart
                             THEN LeadingSph(cl, W.ndim, A.dtype, d1)
                             ELSE Leading(cl, d1)]
    IN IF T THEN Transpose(R) ELSE R

(***************************************************************************)
(* Inputs.                                                                 *)
(***************************************************************************)
ShellsOf(natm) ==
    {[atom |-> a, l |-> l, nprim |-> 1, nctr |-> n, es |-> <<1>>, cs |-> <<[k \in 1..n |-> 1]>>] :
        a \in 0..(natm - 1), l \in 0..MaxL, n \in {1, MaxCtr}}

\* Shells are listed atom by atom and, within an atom, by angular momentum,
\* as Mole.make_env lists the shells of a basis set.
BasSeqs(natm) ==
    UNION {{b \in [1..n -> ShellsOf(natm)] :
              \A i \in 1..(n - 1) :
                 b[i].atom < b[i + 1].atom
                 \/ (b[i].atom = b[i + 1].atom /\ b[i].l <= b[i + 1].l)} : n \in 1..MaxShells}

AuxCells ==
    {[natm |-> natm, cart |-> c, bas |-> b] :
        natm \in {NAtm}, c \in BOOLEAN, b \in BasSeqs(NAtm)}

\* The cells fuse_auxcell is given: spherical and Cartesian, every l.
FuseCells == AuxCells

Seeds == {1}

\* Entry (i, j) of an input array; i runs over the fused basis.
Entry(seed, i, j) ==
    <<(((seed + i) * (j + 2) + i * i) % 5) - 2, ((seed * (i + 1) + 2 * j) % 3) - 1>>

Dtypes == {"float64", "complex128"}

MakeArray(nf, naux, ndim, ax, ncol, seed, zerochg, dtype) ==
    LET e(i, j) == IF zerochg /\ i >= naux THEN CZero
                   ELSE IF dtype = "float64" THEN <<Entry(seed, i, j)[1], 0>>
                   ELSE Entry(seed, i, j)
        rows == IF ndim = 1 THEN [i \in 0..(nf - 1) |-> e(i, 0)]
                ELSE IF ax = 0
                THEN [i \in 0..(nf - 1) |-> [j \in 0..(ncol - 1) |-> e(i, j)]]
                ELSE [j \in 0..(ncol - 1) |-> [i \in 0..(nf - 1) |-> e(i, j)]]
    IN [ndim |-> ndim, d |-> rows, dtype |-> dtype]

\* The exponent handed to fuse_auxcell; the closure never reads its value.
EtaArg == "eta"

\* The parts of the state a specification does not run.
IdleGrid ==
    /\ gpc = "idle" /\ uniq_kpts = <<>> /\ j2c = <<>> /\ j2c0 = <<>>
    /\ kidx = 0 /\ blk_p0 = 0 /\ blksize = 0 /\ ngrids = 0
    /\ j3cR = <<>> /\ j3cI = <<>> /\ j3c0 = <<>>

IdleBlk ==
    max_memory = 0 /\ cur_memory = 0 /\ fused_nao = 0 /\ blocks = <<>>

\* ft_ao._RangeSeparatedCell.from_cell(cell, ke_cutoff): a new object made
\* from the cell and the cutoff.
from_cell(acell, ke) == [of |-> acell, ke_cutoff |-> ke]

IdleBuild ==
    /\ bpc = "idle" /\ cell = None /\ eta = Unset /\ mesh = Unset
    /\ ke_cutoff = Unset /\ cfg0 = None /\ cfg_new = None
    /\ branch = None /\ was_reset = FALSE /\ rs_auxcell = None /\ rs_fused_cell = None

IdleLoad ==
    /\ lpc = "idle" /\ loader_kpt = 0 /\ kpt_ij_idx = <<>> /\ h5group = None
    /\ vbar = None /\ vbar_idx = {} /\ cols = <<>> /\ loaded = <<>>

IdleSolve ==
    /\ spc = "idle" /\ cd_j2c = None /\ sj3cR = None /\ sj3cI = None /\ sj3c0 = None
    /\ cderi = None /\ cderi_negative = None

IdleAuxe2 ==
    apc = "idle" /\ exclude_d_aux = FALSE /\ env0 = None

IdleFuse ==
    /\ fpc = "idle" /\ auxcell = None /\ chgcell = None /\ fused_cell = None
    /\ fuse = None /\ Lpq = None /\ Lpq0 = None /\ axis = 0 /\ rets = <<>>

(***************************************************************************)
(* SpecFuse: fuse_auxcell, then calls of the closure on one array object.  *)
(***************************************************************************)
InitFuse ==
    /\ fpc = "aux"
    /\ auxcell \in FuseCells
    /\ chgcell = None
    /\ fused_cell = None
    /\ fuse = None
    /\ Lpq = None
    /\ Lpq0 = None
    /\ axis = 0
    /\ rets = <<>>
    /\ IdleGrid
    /\ IdleBlk
    /\ IdleAuxe2
    /\ IdleBuild
    /\ IdleLoad
    /\ IdleSolve

FuseAuxcell ==
    /\ fpc = "aux"
    /\ LET r == fuse_auxcell(auxcell, EtaArg)
       IN /\ chgcell' = r.chgcell
          /\ fused_cell' = r.fused_cell
          /\ fuse' = r.fuse
    /\ fpc' = "fused"
    /\ UNCHANGED <<auxcell, Lpq, Lpq0, axis, rets, notFuse>>

\* The caller allocates an array over the fused basis.
MakeInput ==
    /\ fpc = "fused"
    /\ \E ndim \in {1, 2}, ax \in {0, 1}, ncol \in {MaxCols}, seed \in Seeds, z \in BOOLEAN,
          dt \in Dtypes :
          /\ Lpq' = MakeArray(NaoNr(fused_cell), fuse.naux, ndim, ax, ncol, seed, z, dt)
          /\ axis' = ax
    /\ Lpq0' = Lpq'
    /\ fpc' = "input"
    /\ UNCHANGED <<auxcell, chgcell, fused_cell, fuse, rets, notFuse>>

\* The results the caller holds after one more call of fuse(A, ax) on the
\* same array.  The Cartesian closure returns the new array Lpq_sph (lines
\* 397-400, 423), so the earlier results stay as they were returned.  The
\* spherical closure returns the view Lpq[:naux] of the caller's array, or
\* its transpose (lines 429, 438-440): the earlier results are views of the
\* same rows and show what this call wrote.
HeldAfter(cl, rs, A, ax) ==
    LET r == FuseRet(cl, A, ax)
    IN IF cl.auxcell.cart
       THEN Append(rs, r)
       ELSE [k \in 1..(Len(rs) + 1) |-> r]

\* fuse(Lpq, axis): returns, and leaves the caller's array as the code wrote it.
CallFuse ==
    /\ fpc \in {"input", "called"}
    /\ Len(rets) < MaxCalls
    /\ rets' = HeldAfter(fuse, rets, Lpq, axis)
    /\ Lpq' = FuseArg(fuse, Lpq, axis)
    /\ fpc' = "called"
    /\ UNCHANGED <<auxcell, chgcell, fused_cell, fuse, Lpq0, axis, notFuse>>

NextFuse == FuseAuxcell \/ MakeInput \/ CallFuse

SpecFuse == InitFuse /\ [][NextFuse]_vars

(***************************************************************************)
(* get_2c2e (lines 133-176) and add_ft_j3c (lines 256-272).                *)
(*                                                                         *)
(* The integral engine, the Fourier transform of the basis and the Coulomb *)
(* kernel are outside this file; their values are inputs, given here as    *)
(* fixed integer tables.  All of them are even where the code halves       *)
(* (line 174), so that the arithmetic stays exact.                         *)
(***************************************************************************)
Min(a, b) == IF a <= b THEN a ELSE b
Max(a, b) == IF a >= b THEN a ELSE b

\* is_zero(kpt)
is_zero(kpt) == kpt = 0

\* fused_cell.pbc_intor('int2c2e', hermi=0, kpts)[k][i][j]: not Hermitian,
\* real at the zone centre.
Int2c2e(kpt, i, j) ==
    <<2 * ((((i + 1) * (j + 2) + kpt) % 3) - 1),
      IF is_zero(kpt) THEN 0 ELSE 2 * ((((i + 1) * (j + 3) + kpt) % 5) - 2)>>

\* ft_ao.ft_ao(fused_cell, Gv, ...).T[j][G]
FtAo(kpt, j, G) ==
    <<(((j + 1) * (G + 1) + kpt) % 3) - 1, ((j + 2 * G + kpt) % 3) - 1>>

\* weighted_coulG(kpt, False, mesh)[G]
WeightedCoulG(kpt, G) == 2 * (1 + ((G + kpt) % 2))

\* Gpq[0][k] + i Gpq[1][k] at grid point G, pair column q
FtPair(k, G, q) ==
    <<((k + G + 2 * q) % 3) - 1, (((k + 1) * (G + 1) + q) % 3) - 1>>

\* lib.prange(start, end, step): the end of the block that starts at start.
PrangeEnd(start, end, step) == Min(start + step, end)

\* coulG[p0:p1][g] and ft_ao(fused_cell, Gv[p0:p1], ...).T[j][g]
CoulGBlockUnsliced(kpt, q0, g) == WeightedCoulG(kpt, g)
CoulGBlock(kpt, q0, g) == WeightedCoulG(kpt, q0 + g)
AuxGBlock(kpt, q0, j, g) == FtAo(kpt, j, q0 + g)

\* Lines 160-166, one grid point g of the block: row m of auxG[naux:]*coulG
\* against column j of auxG.T; ddot(R,R)+ddot(I,I) at the zone centre,
\* zdotCN (conj(a) b) elsewhere.
J2cTerm(kpt, q0, naux, m, j, g) ==
    LET a == AuxGBlock(kpt, q0, naux + m, g)
        b == AuxGBlock(kpt, q0, j, g)
        w == CoulGBlock(kpt, q0, g)
    IN IF is_zero(kpt)
       THEN <<a[1] * w * b[1] + a[2] * w * b[2], 0>>
       ELSE <<a[1] * w * b[1] + a[2] * w * b[2], a[1] * w * b[2] - a[2] * w * b[1]>>

RECURSIVE J2cPEntry(_, _, _, _, _, _)
J2cPEntry(kpt, q0, n, naux, m, j) ==
    IF n = 0 THEN CZero
    ELSE CAdd(J2cPEntry(kpt, q0, n - 1, naux, m, j), J2cTerm(kpt, q0, naux, m, j, n - 1))

\* j2c_p of the block [q0, q1): rows over the trailing block, columns over
\* the fused basis.
j2c_p(kpt, q0, q1, naux, nf) ==
    [m \in 0..(nf - naux - 1) |-> [j \in 0..(nf - 1) |-> J2cPEntry(kpt, q0, q1 - q0, naux, m, j)]]

\* Lines 167-168: j2c[k][naux:] -= j2c_p; j2c[k][:naux,naux:] -= j2c_p[:,:naux].conj().T
SubJ2cPNoConj(M, P, naux) ==
    LET M1 == [i \in DOMAIN M.d |-> [j \in DOMAIN M.d[i] |->
                  IF i >= naux THEN CSub(M.d[i][j], P[i - naux][j]) ELSE M.d[i][j]]]
    IN [ndim |-> 2,
        d |-> [i \in DOMAIN M1 |-> [j \in DOMAIN M1[i] |->
                  IF i < naux /\ j >= naux
                  THEN CSub(M1[i][j], P[j - naux][i])
                  ELSE M1[i][j]]]]
SubJ2cP(M, P, naux) ==
    LET M1 == [i \in DOMAIN M.d |-> [j \in DOMAIN M.d[i] |->
                  IF i >= naux THEN CSub(M.d[i][j], P[i - naux][j]) ELSE M.d[i][j]]]
    IN [ndim |-> 2,
        d |-> [i \in DOMAIN M1 |-> [j \in DOMAIN M1[i] |->
                  IF i < naux /\ j >= naux
                  THEN CSub(M1[i][j], CConj(P[j - naux][i]))
                  ELSE M1[i][j]]]]

\* Line 174: (j2c[k] + j2c[k].conj().T) * .5
HermitizeNoConj(M) ==
    [ndim |-> 2,
     d |-> [i \in DOMAIN M.d |-> [j \in DOMAIN M.d[i] |->
              LET t == CAdd(M.d[i][j], M.d[j][i]) IN <<t[1] \div 2, t[2] \div 2>>]]]
Hermitize(M) ==
    [ndim |-> 2,
     d |-> [i \in DOMAIN M.d |-> [j \in DOMAIN M.d[i] |->
              LET t == CAdd(M.d[i][j], CConj(M.d[j][i])) IN <<t[1] \div 2, t[2] \div 2>>]]]

\* weighted_ft_ao(kpt) (lines 189-203): Gaux[G][m], the transform of model
\* charge m (shell slice auxcell.nbas..fused_cell.nbas) times the kernel.
weighted_ft_ao(kpt, naux, G, m) ==
    LET a == FtAo(kpt, naux + m, G) IN <<a[1] * WeightedCoulG(kpt, G), a[2] * WeightedCoulG(kpt, G)>>

\* GchgR[g][m] + i GchgI[g][m]: Gaux[0][p0:p1], Gaux[1][p0:p1] (lines 258-259)
GchgUnsliced(kpt, naux, q0, g, m) == weighted_ft_ao(kpt, naux, g, m)
Gchg(kpt, naux, q0, g, m) == weighted_ft_ao(kpt, naux, q0 + g, m)

\* Lines 268-269: what the two ddot calls subtract from j3cR[k][naux+m][q].
RECURSIVE FtSumR(_, _, _, _, _, _, _)
FtSumR(kpt, naux, q0, n, k, m, q) ==
    IF n = 0 THEN 0
    ELSE FtSumR(kpt, naux, q0, n - 1, k, m, q)
         + Gchg(kpt, naux, q0, n - 1, m)[1] * FtPair(k, q0 + n - 1, q)[1]
         + Gchg(kpt, naux, q0, n - 1, m)[2] * FtPair(k, q0 + n - 1, q)[2]

\* Lines 271-272: what they subtract from j3cI[k][naux+m][q].
RECURSIVE FtSumI(_, _, _, _, _, _, _)
FtSumI(kpt, naux, q0, n, k, m, q) ==
    IF n = 0 THEN 0
    ELSE FtSumI(kpt, naux, q0, n - 1, k, m, q)
         + Gchg(kpt, naux, q0, n - 1, m)[1] * FtPair(k, q0 + n - 1, q)[2]
         - Gchg(kpt, naux, q0, n - 1, m)[2] * FtPair(k, q0 + n - 1, q)[1]

\* None in a slot that otherwise holds an array (j3cI[k] of line 270).
NoneArr == [ndim |-> 0, d |-> <<>>]

\* One buffer after add_ft_j3c(j3c, Gpq, Gaux, q0, q1); k is 0-based.
AddFtR(B, kpt, naux, q0, q1, k) ==
    [ndim |-> 2,
     d |-> [i \in DOMAIN B.d |-> [q \in DOMAIN B.d[i] |->
              IF i >= naux THEN B.d[i][q] - FtSumR(kpt, naux, q0, q1 - q0, k, i - naux, q)
              ELSE B.d[i][q]]]]
AddFtI(B, kpt, naux, q0, q1, k) ==
    IF B = NoneArr THEN NoneArr
    ELSE [ndim |-> 2,
          d |-> [i \in DOMAIN B.d |-> [q \in DOMAIN B.d[i] |->
                   IF i >= naux THEN B.d[i][q] - FtSumI(kpt, naux, q0, q1 - q0, k, i - naux, q)
                   ELSE B.d[i][q]]]]

\* The stored short-range buffers (the integral engine's output).
J3cStored(k, i, q, part) == (((k + 2) * (i + 1) + q + part) % 5) - 2

(***************************************************************************)
(* SpecGrid: one run of get_2c2e, or one sequence of add_ft_j3c calls that *)
(* covers the grid, on a builder that build() has set up.                  *)
(* The grid has a few points and blksize runs over 1..MaxGrid, so that a   *)
(* run has one block or several; the size that lines 149-150 compute is    *)
(* followed in SpecBlk.                                                    *)
(***************************************************************************)
GridCells == {c \in AuxCells : ~c.cart /\ NaoNr(c) <= MaxNaux}

KptLists == {SortedSeq(S) : S \in (SUBSET (0..(MaxKpts - 1))) \ {{}}}

Built(acell) ==
    LET r == fuse_auxcell(acell, EtaArg)
    IN /\ fpc = "built"
       /\ auxcell = acell
       /\ chgcell = r.chgcell
       /\ fused_cell = r.fused_cell
       /\ fuse = r.fuse
       /\ Lpq = None /\ Lpq0 = None /\ axis = 0 /\ rets = <<>>

InitGrid ==
    /\ \E acell \in GridCells : Built(acell)
    /\ IdleBlk
    /\ IdleAuxe2
    /\ IdleBuild
    /\ IdleLoad
    /\ IdleSolve
    /\ ngrids \in 1..MaxGrid
    /\ kidx = 0
    /\ blk_p0 = 0
    /\ \/ /\ gpc = "block"
          /\ uniq_kpts \in KptLists
          /\ blksize \in 1..MaxGrid
          /\ j2c0 = [k \in 1..Len(uniq_kpts) |->
                       [ndim |-> 2,
                        d |-> [i \in 0..(NaoNr(fused_cell) - 1) |->
                                 [j \in 0..(NaoNr(fused_cell) - 1) |-> Int2c2e(uniq_kpts[k], i, j)]]]]
          /\ j2c = j2c0
          /\ j3cR = <<>> /\ j3cI = <<>> /\ j3c0 = <<>>
       \/ /\ gpc = "ft"
          /\ uniq_kpts \in {<<kpt>> : kpt \in 0..(MaxKpts - 1)}
          /\ blksize = 0
          /\ j2c0 = <<>> /\ j2c = <<>>
          /\ j3cR = [k \in 1..MaxKpts |->
                       [ndim |-> 2,
                        d |-> [i \in 0..(NaoNr(fused_cell) - 1) |->
                                 [q \in 0..(MaxCols - 1) |-> J3cStored(k, i, q, 0)]]]]
          /\ \E hasI \in [1..MaxKpts -> BOOLEAN] :
                j3cI = [k \in 1..MaxKpts |->
                          IF hasI[k]
                          THEN [ndim |-> 2,
                                d |-> [i \in 0..(NaoNr(fused_cell) - 1) |->
                                         [q \in 0..(MaxCols - 1) |-> J3cStored(k, i, q, 1)]]]
                          ELSE NoneArr]
          /\ j3c0 = <<j3cR, j3cI>>

\* One pass of the loop body of lines 154-169.
Get2c2eBlock ==
    /\ gpc = "block"
    /\ LET kpt == uniq_kpts[kidx + 1]
           p1 == PrangeEnd(blk_p0, ngrids, blksize)
           P == j2c_p(kpt, blk_p0, p1, fuse.naux, NaoNr(fused_cell))
       IN /\ j2c' = [j2c EXCEPT ![kidx + 1] = SubJ2cP(@, P, fuse.naux)]
          /\ blk_p0' = p1
          /\ gpc' = IF p1 >= ngrids THEN "sym" ELSE "block"
    /\ UNCHANGED <<uniq_kpts, j2c0, kidx, blksize, ngrids, j3cR, j3cI, j3c0, fuseVars, notGrid>>

\* Lines 174-175 for k-point k, then the next k-point or the return.
Get2c2eSymFuse ==
    /\ gpc = "sym"
    /\ j2c' = [j2c EXCEPT ![kidx + 1] = FuseRet(fuse, FuseRet(fuse, Hermitize(@), 0), 1)]
    /\ kidx' = kidx + 1
    /\ blk_p0' = 0
    /\ gpc' = IF kidx + 1 >= Len(uniq_kpts) THEN "done" ELSE "block"
    /\ UNCHANGED <<uniq_kpts, j2c0, blksize, ngrids, j3cR, j3cI, j3c0, fuseVars, notGrid>>

\* add_ft_j3c(j3c, Gpq, Gaux, p0, p1) for the next block the caller chooses.
AddFtJ3c ==
    /\ gpc = "ft"
    /\ \E p1 \in (blk_p0 + 1)..ngrids :
          /\ j3cR' = [k \in DOMAIN j3cR |->
                        AddFtR(j3cR[k], uniq_kpts[1], fuse.naux, blk_p0, p1, k - 1)]
          /\ j3cI' = [k \in DOMAIN j3cI |->
                        AddFtI(j3cI[k], uniq_kpts[1], fuse.naux, blk_p0, p1, k - 1)]
          /\ blk_p0' = p1
          /\ gpc' = IF p1 >= ngrids THEN "ftdone" ELSE "ft"
    /\ UNCHANGED <<uniq_kpts, j2c, j2c0, kidx, blksize, ngrids, j3c0, fuseVars, notGrid>>

NextGrid == Get2c2eBlock \/ Get2c2eSymFuse \/ AddFtJ3c

SpecGrid == InitGrid /\ [][NextGrid]_vars

(***************************************************************************)
(* SpecBlk: the block size of get_2c2e (lines 149-150) with the code's     *)
(* constants, and the loops of lines 152-154 over grids of realistic size. *)
(* Only the indices are followed here; SpecGrid follows the data.          *)
(***************************************************************************)
MinMaxMemory == 2000
MinBlkSize == 2048
\* .4e6/16: the grid points one MB of budget pays for, per basis function
PointsPerMB == 25000

\* Lines 149-150: blksize from the builder's budget and the memory in use.
BlkSizeNoMin(self_max_memory, current_memory, nao) ==
    (Max(MinMaxMemory, self_max_memory - current_memory) * PointsPerMB) \div nao
BlkSize(self_max_memory, current_memory, nao) ==
    LET mm == Max(MinMaxMemory, self_max_memory - current_memory)
    IN Max(MinBlkSize, (mm * PointsPerMB) \div nao)

Budgets == {0, 2000, 4000}
MemoryInUse == {0, 1500, 6000}
NaoSizes == {1, 3, 10000, 24414, 24415, 100000}
GridSizes == {1, 2047, 2048, 2049, 4913, 12167}

InitBlk ==
    /\ IdleFuse
    /\ IdleBuild
    /\ IdleLoad
    /\ IdleSolve
    /\ IdleAuxe2
    /\ gpc = "mem"
    /\ uniq_kpts \in KptLists
    /\ j2c = <<>> /\ j2c0 = <<>> /\ j3cR = <<>> /\ j3cI = <<>> /\ j3c0 = <<>>
    /\ kidx = 0 /\ blk_p0 = 0 /\ blksize = 0
    /\ ngrids \in GridSizes
    /\ max_memory \in Budgets
    /\ cur_memory \in MemoryInUse
    /\ fused_nao \in NaoSizes
    /\ blocks = <<>>

\* Lines 149-150.
Get2c2eBlkSize ==
    /\ gpc = "mem"
    /\ blksize' = BlkSize(max_memory, cur_memory, fused_nao)
    /\ gpc' = "blk"
    /\ UNCHANGED <<uniq_kpts, j2c, j2c0, kidx, blk_p0, ngrids, j3cR, j3cI, j3c0,
                   max_memory, cur_memory, fused_nao, blocks, notBlk>>

\* One block (p0, p1) of lib.prange(0, ngrids, blksize), line 154.
Get2c2ePrange ==
    /\ gpc = "blk"
    /\ LET p1 == PrangeEnd(blk_p0, ngrids, blksize)
       IN /\ blocks' = Append(blocks, <<blk_p0, p1>>)
          /\ blk_p0' = p1
          /\ gpc' = IF p1 >= ngrids THEN "blkend" ELSE "blk"
    /\ UNCHANGED <<uniq_kpts, j2c, j2c0, kidx, blksize, ngrids, j3cR, j3cI, j3c0,
                   max_memory, cur_memory, fused_nao, notBlk>>

\* The loop of line 152 moves to the next k-point, or get_2c2e returns.
Get2c2eNextKpt ==
    /\ gpc = "blkend"
    /\ kidx' = kidx + 1
    /\ blk_p0' = 0
    /\ blocks' = IF kidx + 1 >= Len(uniq_kpts) THEN blocks ELSE <<>>
    /\ gpc' = IF kidx + 1 >= Len(uniq_kpts) THEN "blkdone" ELSE "blk"
    /\ UNCHANGED <<uniq_kpts, j2c, j2c0, blksize, ngrids, j3cR, j3cI, j3c0,
                   max_memory, cur_memory, fused_nao, notBlk>>

NextBlk == Get2c2eBlkSize \/ Get2c2ePrange \/ Get2c2eNextKpt

SpecBlk == InitBlk /\ [][NextBlk]_vars

(***************************************************************************)
(* SpecLoad: auxbar, gen_j3c_loader and the closure load_j3c.  A cell here *)
(* also carries dimension and omega, which copy.copy hands from the        *)
(* auxiliary cell to the fused cell.                                       *)
(***************************************************************************)
RECURSIVE ProdSeq(_)
ProdSeq(sq) == IF sq = <<>> THEN 1 ELSE sq[1] * ProdSeq(Tail(sq))

RECURSIVE SumTo(_, _)
SumTo(f, n) == IF n = 0 THEN 0 ELSE f[n] + SumTo(f, n - 1)

\* vbar is held in units of pi / (vol * ExpScale): ExpScale, the product of
\* the exponents of the s shells, makes every -1/es[i] an integer.
RECURSIVE ExpScale(_)
ExpScale(bas) ==
    IF bas = <<>> THEN 1
    ELSE (IF bas[1].l = 0 THEN ProdSeq(bas[1].es) ELSE 1) * ExpScale(Tail(bas))

\* Lines 311-318 for shell sh, its contraction n: one primitive writes
\* vbar[aux_loc[i]] only; several are contracted with cs.
VbarOfShell(sh, scale, n) ==
    IF Len(sh.es) = 1
    THEN IF n = 0 THEN -(scale \div sh.es[1]) ELSE 0
    ELSE SumTo([i \in 1..Len(sh.es) |-> sh.cs[i][n + 1] * (-(scale \div sh.es[i]))],
               Len(sh.es))

\* The loop of lines 308-318 and the scaling of line 325.
AuxbarLoop(fcell) ==
    LET scale == ExpScale(fcell.bas)
        sOf(q) == CHOOSE i \in 1..Len(fcell.bas) :
                     /\ AoLoc(fcell.bas, fcell.cart, i - 1) <= q
                     /\ q < AoLoc(fcell.bas, fcell.cart, i)
    IN [ndim |-> 1,
        d |-> [q \in 0..(NaoNr(fcell) - 1) |->
                 IF fcell.bas[sOf(q)].l = 0
                 THEN VbarOfShell(fcell.bas[sOf(q)], scale,
                                  q - AoLoc(fcell.bas, fcell.cart, sOf(q) - 1))
                 ELSE 0]]

\* auxbar(fused_cell), lines 291-326.
AuxbarNoReturn(fcell) == AuxbarLoop(fcell)
auxbar(fcell) ==
    IF fcell.dimension # 3 \/ fcell.omega < 0
    THEN [ndim |-> 1, d |-> [q \in 0..(NaoNr(fcell) - 1) |-> 0]]
    ELSE AuxbarLoop(fcell)

\* len(self.kpts)
NKpts == MaxKpts

\* cell.pbc_intor('int1e_ovlp', hermi=1, kpts)[kj], flattened, at pair column
\* c (lines 215-227); real at the zone centre.
Ovlp(kj, c) ==
    <<((kj + 2 * c) % 3) + 1, IF kj = 0 THEN 0 ELSE ((kj + c) % 2) + 1>>

\* h5group[f'j3cR/{kk}'][col0:col1].reshape(-1, naux), transposed (line 239).
LoadBlock(stored, naux, col0, col1) ==
    [ndim |-> 2,
     d |-> [q \in 0..(naux - 1) |-> [c \in 0..(col1 - col0 - 1) |-> stored.d[col0 + c][q]]]]

\* Lines 245-249 on one loaded block: part 1 the real, part 2 the imaginary
\* part of vmod.
SubVmodUnsliced(V, vb, idx, kj, col0, part) ==
    [V EXCEPT !.d = [q \in DOMAIN V.d |-> [c \in DOMAIN V.d[q] |->
                        IF q \in idx
                        THEN V.d[q][c] - vb.d[q] * Ovlp(kj, c)[part]
                        ELSE V.d[q][c]]]]
SubVmod(V, vb, idx, kj, col0, part) ==
    [V EXCEPT !.d = [q \in DOMAIN V.d |-> [c \in DOMAIN V.d[q] |->
                        IF q \in idx
                        THEN V.d[q][c] - vb.d[q] * Ovlp(kj, col0 + c)[part]
                        ELSE V.d[q][c]]]]

\* load_j3c(col0, col1), lines 235-252.
load_j3c(h5, idx, vb, vidx, naux, col0, col1) ==
    LET vR(kk) == LoadBlock(h5.j3cR[kk], naux, col0, col1)
        vI(kk) == IF h5.j3cI[kk] # NoneArr
                  THEN LoadBlock(h5.j3cI[kk], naux, col0, col1)
                  ELSE NoneArr
    IN <<[k \in 1..Len(idx) |->
            IF vb # NoneArr
            THEN SubVmod(vR(idx[k]), vb, vidx, idx[k] % NKpts, col0, 1)
            ELSE vR(idx[k])],
         [k \in 1..Len(idx) |->
            IF vb # NoneArr /\ vI(idx[k]) # NoneArr
            THEN SubVmod(vI(idx[k]), vb, vidx, idx[k] % NKpts, col0, 2)
            ELSE vI(idx[k])]>>

\* Auxiliary cells of the loader: s shells of one primitive, of one primitive
\* with two contractions, of two primitives whose terms cancel, of two
\* primitives and two contractions; a p shell.
S1 == [atom |-> 0, l |-> 0, nprim |-> 1, nctr |-> 1, es |-> <<1>>, cs |-> <<<<1>>>>]
S1c == [atom |-> 0, l |-> 0, nprim |-> 1, nctr |-> MaxCtr, es |-> <<1>>,
        cs |-> <<[k \in 1..MaxCtr |-> 1]>>]
S2z == [atom |-> 0, l |-> 0, nprim |-> 2, nctr |-> 1, es |-> <<1, 2>>,
        cs |-> <<<<1>>, <<-2>>>>]
S2c == [atom |-> 0, l |-> 0, nprim |-> 2, nctr |-> 2, es |-> <<1, 2>>,
        cs |-> <<<<1, 0>>, <<1, 1>>>>]
P1 == [atom |-> NAtm - 1, l |-> 1, nprim |-> 1, nctr |-> 1, es |-> <<1>>, cs |-> <<<<1>>>>]

LoadBases == {<<S1>>, <<P1>>, <<S1c>>, <<S2z, P1>>, <<S2c>>}
Omegas == {-1, 0, 1}
Dimensions == 0..3
LoadEtas == {<<2>>}

LoadAuxCells ==
    {[natm |-> NAtm, cart |-> FALSE, bas |-> b, dimension |-> dm, omega |-> w] :
        b \in LoadBases, dm \in Dimensions, w \in Omegas}

\* The k-pair batches: one pair, or two pairs of different k-points kj.
KPairBatches == {<<0>>, <<1>>, <<0, MaxKpts + 1>>}

Stored(kk, naux, part) ==
    [ndim |-> 2,
     d |-> [c \in 0..(MaxCols - 1) |-> [q \in 0..(naux - 1) |-> Entry(kk + 1, q, c)[part]]]]

InitLoad ==
    /\ IdleGrid
    /\ IdleBlk
    /\ IdleAuxe2
    /\ IdleSolve
    /\ bpc = "built"
    /\ eta \in LoadEtas
    /\ mesh = <<1, 1, 1>>
    /\ ke_cutoff = <<1>>
    /\ cfg0 = [eta |-> eta, mesh |-> mesh, ke_cutoff |-> Unset]
    /\ cfg_new = cfg0
    /\ branch = "ke_cutoff"
    /\ was_reset = FALSE
    /\ \E acell \in LoadAuxCells :
          LET r == fuse_auxcell(acell, eta[1])
          IN /\ fpc = "built"
             /\ auxcell = acell
             /\ chgcell = r.chgcell
             /\ fused_cell = r.fused_cell
             /\ fuse = r.fuse
             /\ rs_auxcell = from_cell(acell, ke_cutoff)
             /\ rs_fused_cell = from_cell(r.fused_cell, ke_cutoff)
             /\ Lpq = None /\ Lpq0 = None /\ axis = 0 /\ rets = <<>>
    /\ \E dm \in Dimensions :
          cell = [dimension |-> dm, mesh |-> mesh, low_dim_ft_type |-> None, eta_guess |-> 1]
    /\ lpc = "gen"
    /\ loader_kpt \in 0..1
    /\ kpt_ij_idx \in KPairBatches
    /\ \E withI \in {"none", "first", "all"} :
          h5group =
            [j3cR |-> [kk \in {kpt_ij_idx[k] : k \in 1..Len(kpt_ij_idx)} |->
                         Stored(kk, NaoNr(fused_cell), 1)],
             j3cI |-> [kk \in {kpt_ij_idx[k] : k \in 1..Len(kpt_ij_idx)} |->
                         IF withI = "all" \/ (withI = "first" /\ kk = kpt_ij_idx[1])
                         THEN Stored(kk, NaoNr(fused_cell), 2)
                         ELSE NoneArr]]
    /\ vbar = NoneArr
    /\ vbar_idx = {}
    /\ cols = <<>>
    /\ loaded = <<>>

\* gen_j3c_loader, lines 205-233 and 254.
GenJ3cLoader ==
    /\ lpc = "gen"
    /\ IF cell.dimension = 3 /\ is_zero(loader_kpt)
       THEN LET vb == auxbar(fused_cell)
                idx == {q \in DOMAIN vb.d : vb.d[q] # 0}
            IN /\ vbar' = IF idx = {} THEN NoneArr ELSE vb
               /\ vbar_idx' = idx
       ELSE /\ vbar' = NoneArr
            /\ vbar_idx' = {}
    /\ lpc' = "loader"
    /\ UNCHANGED <<loader_kpt, kpt_ij_idx, h5group, cols, loaded, notLoad>>

\* A call load_j3c(col0, col1) of the closure.
LoadJ3c ==
    /\ lpc \in {"loader", "loaded"}
    /\ \E col0 \in 0..(MaxCols - 1) : \E col1 \in (col0 + 1)..MaxCols :
          /\ cols' = <<col0, col1>>
          /\ loaded' = load_j3c(h5group, kpt_ij_idx, vbar, vbar_idx,
                                NaoNr(fused_cell), col0, col1)
    /\ lpc' = "loaded"
    /\ UNCHANGED <<loader_kpt, kpt_ij_idx, h5group, vbar, vbar_idx, notLoad>>

NextLoad == GenJ3cLoader \/ LoadJ3c

SpecLoad == InitLoad /\ [][NextLoad]_vars

(***************************************************************************)
(* SpecBuild: build() and reset() on a builder the caller has configured.  *)
(* eta comes in tenths.  The estimates of aft and pbctools are tables that *)
(* grow with their argument, as the estimates do.                          *)
(***************************************************************************)
MaxMesh == 2       \* largest mesh dimension of the cell and of the caller

\* eta = 0.2 of a molecule, in tenths (line 456).
EtaZeroDim == 2

\* pbctools.mesh_to_cutoff(cell.lattice_vectors(), mesh)
mesh_to_cutoff(m) == [i \in 1..3 |-> m[i] * m[i]]
\* pbctools.cutoff_to_mesh(cell.lattice_vectors(), ke_cutoff)
cutoff_to_mesh(ke) == <<ke, ke + 1, ke + 2>>
\* aft.estimate_eta_for_ke_cutoff(cell, ke_cutoff, precision)
estimate_eta_for_ke_cutoff(ke) == ke + 1
\* aft.estimate_ke_cutoff_for_eta(cell, eta, precision)
estimate_ke_cutoff_for_eta(e) == e
\* aft.estimate_eta(cell, precision)
estimate_eta(c) == c.eta_guess

\* ke_cutoff[:n].min()
RECURSIVE MinOver(_, _)
MinOver(f, n) == IF n <= 1 THEN f[1] ELSE Min(f[n], MinOver(f, n - 1))

\* _round_off_to_odd_mesh, lines 443-451.
RoundOffToEven(m) == [i \in 1..Len(m) |-> (m[i] \div 2) * 2]
round_off_to_odd_mesh(m) == [i \in 1..Len(m) |-> (m[i] \div 2) * 2 + 1]

\* _guess_eta(cell, mesh), lines 453-478.
GuessEtaRoundsAll(c, m) ==
    IF c.dimension = 0
    THEN LET m1 == IF m = Unset THEN c.mesh ELSE m
         IN [eta |-> EtaZeroDim, mesh |-> m1, ke_cutoff |-> MinOver(mesh_to_cutoff(m1), 3)]
    ELSE IF m = Unset
    THEN LET ke0 == MinOver(mesh_to_cutoff(c.mesh), c.dimension)
             eta0 == estimate_eta_for_ke_cutoff(ke0)
             eta_guess == estimate_eta(c)
             ke1 == estimate_ke_cutoff_for_eta(eta_guess)
             m1 == cutoff_to_mesh(ke1)
             m2 == IF c.dimension < 2 \/ c.low_dim_ft_type = "inf_vacuum"
                   THEN [i \in 1..3 |-> IF i > c.dimension THEN c.mesh[i] ELSE m1[i]]
                   ELSE m1
         IN IF eta0 > eta_guess
            THEN [eta |-> eta_guess, mesh |-> round_off_to_odd_mesh(m2), ke_cutoff |-> ke1]
            ELSE [eta |-> eta0, mesh |-> round_off_to_odd_mesh(c.mesh), ke_cutoff |-> ke0]
    ELSE LET ke0 == MinOver(mesh_to_cutoff(m), c.dimension)
         IN [eta |-> estimate_eta_for_ke_cutoff(ke0), mesh |-> round_off_to_odd_mesh(m), ke_cutoff |-> ke0]
guess_eta(c, m) ==
    IF c.dimension = 0
    THEN LET m1 == IF m = Unset THEN c.mesh ELSE m
         IN [eta |-> EtaZeroDim, mesh |-> m1, ke_cutoff |-> MinOver(mesh_to_cutoff(m1), 3)]
    ELSE IF m = Unset
    THEN LET ke0 == MinOver(mesh_to_cutoff(c.mesh), c.dimension)
             eta0 == estimate_eta_for_ke_cutoff(ke0)
             eta_guess == estimate_eta(c)
             ke1 == estimate_ke_cutoff_for_eta(eta_guess)
             m1 == cutoff_to_mesh(ke1)
             m2 == IF c.dimension < 2 \/ c.low_dim_ft_type = "inf_vacuum"
                   THEN [i \in 1..3 |-> IF i > c.dimension THEN c.mesh[i] ELSE m1[i]]
                   ELSE m1
         IN IF eta0 > eta_guess
            THEN [eta |-> eta_guess, mesh |-> round_off_to_odd_mesh(m2), ke_cutoff |-> ke1]
            ELSE [eta |-> eta0, mesh |-> round_off_to_odd_mesh(c.mesh), ke_cutoff |-> ke0]
    ELSE LET ke0 == MinOver(mesh_to_cutoff(m), c.dimension)
         IN [eta |-> estimate_eta_for_ke_cutoff(ke0), mesh |-> m, ke_cutoff |-> ke0]

\* The branch of lines 97-105 that build takes.
SelectBranch(e, m, ke) ==
    IF e = Unset THEN "eta"
    ELSE IF m = Unset THEN "mesh"
    ELSE IF ke = Unset THEN "ke_cutoff"
    ELSE "none"

\* Lines 97-105 of build: eta, mesh and ke_cutoff after the selection.
SelectMeshKeAlways(c, e, m, ke) ==
    IF e = Unset
    THEN LET g == guess_eta(c, m)
         IN [eta |-> <<g.eta>>, mesh |-> g.mesh, ke_cutoff |-> <<g.ke_cutoff>>]
    ELSE IF m = Unset
    THEN LET ke1 == estimate_ke_cutoff_for_eta(e[1])
         IN [eta |-> e, mesh |-> round_off_to_odd_mesh(cutoff_to_mesh(ke1)),
             ke_cutoff |-> <<ke1>>]
    ELSE [eta |-> e, mesh |-> m, ke_cutoff |-> <<MinOver(mesh_to_cutoff(m), 3)>>]
SelectMesh(c, e, m, ke) ==
    IF e = Unset
    THEN LET g == guess_eta(c, m)
         IN [eta |-> <<g.eta>>, mesh |-> g.mesh, ke_cutoff |-> <<g.ke_cutoff>>]
    ELSE IF m = Unset
    THEN LET ke1 == estimate_ke_cutoff_for_eta(e[1])
         IN [eta |-> e, mesh |-> round_off_to_odd_mesh(cutoff_to_mesh(ke1)),
             ke_cutoff |-> <<ke1>>]
    ELSE IF ke = Unset
    THEN [eta |-> e, mesh |-> m, ke_cutoff |-> <<MinOver(mesh_to_cutoff(m), 3)>>]
    ELSE [eta |-> e, mesh |-> m, ke_cutoff |-> ke]

Meshes == [1..3 -> 1..MaxMesh]
CallerEtas == {Unset, <<1>>, <<3>>}

Cells ==
    {[dimension |-> dm, mesh |-> m, low_dim_ft_type |-> t, eta_guess |-> g] :
        dm \in Dimensions, m \in Meshes, t \in {None, "inf_vacuum"}, g \in {1, 3}}

\* __init__ (lines 48-68), then the caller's eta and mesh.
InitBuild ==
    /\ IdleGrid
    /\ IdleBlk
    /\ IdleAuxe2
    /\ IdleLoad
    /\ IdleSolve
    /\ bpc = "new"
    /\ cell \in Cells
    /\ eta \in CallerEtas
    /\ mesh \in {Unset} \cup Meshes
    /\ ke_cutoff = Unset
    /\ cfg0 = [eta |-> eta, mesh |-> mesh, ke_cutoff |-> ke_cutoff]
    /\ cfg_new = cfg0
    /\ branch = None
    /\ was_reset = FALSE
    /\ rs_auxcell = None
    /\ rs_fused_cell = None
    /\ fpc = "aux"
    /\ auxcell = [natm |-> NAtm, cart |-> FALSE, bas |-> <<S1, P1>>,
                  dimension |-> cell.dimension, omega |-> 0]
    /\ chgcell = None
    /\ fused_cell = None
    /\ fuse = None
    /\ Lpq = None /\ Lpq0 = None /\ axis = 0 /\ rets = <<>>

\* build(), lines 87-125, on a new, a built or a reset builder.
Build ==
    /\ bpc \in {"new", "built", "reset"}
    /\ LET sel == SelectMesh(cell, eta, mesh, ke_cutoff)
           r == fuse_auxcell(auxcell, sel.eta[1])
       IN /\ eta' = sel.eta
          /\ mesh' = sel.mesh
          /\ ke_cutoff' = sel.ke_cutoff
          /\ chgcell' = r.chgcell
          /\ fused_cell' = r.fused_cell
          /\ fuse' = r.fuse
          /\ rs_auxcell' = from_cell(auxcell, sel.ke_cutoff)
          /\ rs_fused_cell' = from_cell(r.fused_cell, sel.ke_cutoff)
    /\ cfg0' = [eta |-> eta, mesh |-> mesh, ke_cutoff |-> ke_cutoff]
    /\ branch' = SelectBranch(eta, mesh, ke_cutoff)
    /\ fpc' = "built"
    /\ bpc' = "built"
    /\ UNCHANGED <<cell, cfg_new, was_reset, auxcell, Lpq, Lpq0, axis, rets, notBuild>>

\* The cells a caller hands to reset(cell).
ResetCells ==
    {c \in Cells : /\ c.dimension = 3
                   /\ c.low_dim_ft_type = None
                   /\ c.eta_guess = 1
                   /\ \A i \in 1..3 : c.mesh[i] = MaxMesh}

\* reset(cell), lines 74-77, on a new, a built or a reset builder; given
\* says whether the caller passed a cell.  Line 75 hands the cell to
\* _Int3cBuilder.reset, which lies outside this file: a cell that is given
\* becomes self.cell, and of the attributes the base class keeps, ke_cutoff
\* and rs_auxcell, each is either left as it is or cleared.  Lines 76-77
\* clear fused_cell and fuse; eta, mesh and rs_fused_cell, which this class
\* defines (lines 49-53), are not assigned.
Reset ==
    /\ bpc \in {"new", "built", "reset"}
    /\ \E given \in BOOLEAN, c2 \in ResetCells : cell' = IF given THEN c2 ELSE cell
    /\ ke_cutoff' = ke_cutoff \/ ke_cutoff' = Unset
    /\ rs_auxcell' = rs_auxcell \/ rs_auxcell' = None
    /\ fused_cell' = None
    /\ fuse' = None
    /\ chgcell' = None
    /\ fpc' = "aux"
    /\ bpc' = "reset"
    /\ was_reset' = TRUE
    /\ UNCHANGED <<eta, mesh, cfg0, cfg_new, branch, rs_fused_cell,
                   auxcell, Lpq, Lpq0, axis, rets, notBuild>>

NextBuild == Build \/ Reset

SpecBuild == InitBuild /\ [][NextBuild]_vars

(***************************************************************************)
(* SpecSolve: solve_cderi on a built builder.  The buffers hold multiples  *)
(* of 2^naux and the diagonal of a Cholesky factor is 1 or 2, so that the  *)
(* forward substitution stays in the integers.                             *)
(***************************************************************************)
MaxSolve == 2      \* auxiliary functions of a cell whose tensor is solved

\* The sum of f[0] .. f[n-1].
RECURSIVE CSumTo(_, _)
CSumTo(f, n) == IF n = 0 THEN CZero ELSE CAdd(f[n - 1], CSumTo(f, n - 1))

\* lib.dot(A, X)
MatMul(A, X) ==
    [ndim |-> 2,
     d |-> [i \in DOMAIN A.d |-> [q \in DOMAIN X.d[0] |->
              CSumTo([j \in DOMAIN X.d |-> CMul(A.d[i][j], X.d[j][q])], NRows(X))]]]

\* z / r for a real r that divides z.
CDivReal(z, r) == <<z[1] \div r, z[2] \div r>>

\* scipy.linalg.solve_triangular(L, B, lower=True), entry (i, q): forward
\* substitution down the rows.
RECURSIVE TriEntryUnitDiag(_, _, _, _)
TriEntryUnitDiag(L, B, i, q) ==
    CSub(B.d[i][q],
         CSumTo([j \in 0..(i - 1) |-> CMul(L.d[i][j], TriEntryUnitDiag(L, B, j, q))], i))
RECURSIVE TriEntry(_, _, _, _)
TriEntry(L, B, i, q) ==
    CDivReal(CSub(B.d[i][q],
                  CSumTo([j \in 0..(i - 1) |-> CMul(L.d[i][j], TriEntry(L, B, j, q))], i)),
             L.d[i][i][1])

solve_triangular(L, B) ==
    [ndim |-> 2, d |-> [i \in DOMAIN B.d |-> [q \in DOMAIN B.d[i] |-> TriEntry(L, B, i, q)]]]

\* The array handed to fuse: j3cR itself (line 277) or the new array
\* j3cR + j3cI * 1j (line 279).
SolveInput(R, I) ==
    [ndim |-> 2,
     d |-> [i \in DOMAIN R.d |-> [q \in DOMAIN R.d[i] |->
              <<R.d[i][q], IF I = NoneArr THEN 0 ELSE I.d[i][q]>>]]]

\* Lines 281-288: the negative branch.
CderiNegativeAnyTag(cd, j3c) ==
    IF cd.j2c_negative # NoneArr THEN MatMul(cd.j2c_negative, j3c) ELSE NoneArr
CderiNegative(cd, j3c) ==
    IF cd.j2ctag # "CD" /\ cd.j2c_negative # NoneArr
    THEN MatMul(cd.j2c_negative, j3c)
    ELSE NoneArr

\* solve_cderi(cd_j2c, j3cR, j3cI), lines 274-289: what it returns.
solve_cderi(cl, cd, R, I) ==
    LET j3c == FuseRet(cl, SolveInput(R, I), 0)
    IN [cderi |-> IF cd.j2ctag = "CD"
                  THEN solve_triangular(cd.j2c, j3c)
                  ELSE MatMul(cd.j2c, j3c),
        cderi_negative |-> CderiNegative(cd, j3c)]

\* The caller's j3cR after the call.  Without j3cI, fuse writes it in place
\* (line 277) and overwrite_b=True lets solve_triangular leave the solution
\* in the rows fuse returned, when it can use them as they are (ow).
J3cRAfter(cl, cd, R, I, X, ow) ==
    IF I # NoneArr THEN R
    ELSE LET F == FuseArg(cl, SolveInput(R, I), 0)
         IN [ndim |-> 2,
             d |-> [i \in DOMAIN R.d |-> [q \in DOMAIN R.d[i] |->
                      IF ow /\ i < cl.naux THEN X.d[i][q][1] ELSE F.d[i][q][1]]]]

RECURSIVE Pow2(_)
Pow2(n) == IF n = 0 THEN 1 ELSE 2 * Pow2(n - 1)

SolveSeeds == 0..3

\* A Cholesky factor: lower triangular, real positive diagonal, complex below
\* it away from the zone centre (seeds 2 and 3).
LowerTri(seed, n) ==
    [ndim |-> 2,
     d |-> [i \in 0..(n - 1) |-> [j \in 0..(n - 1) |->
              IF j > i THEN CZero
              ELSE IF j = i THEN <<1 + ((seed + i) % 2), 0>>
              ELSE <<((seed + i + 2 * j) % 3) - 1,
                     IF seed < 2 THEN 0 ELSE ((2 * i + j + seed) % 3) - 1>>]]]

\* A factor of the eigendecomposition, or its negative part: rows x n.
EigFactor(seed, rows, n) ==
    [ndim |-> 2,
     d |-> [i \in 0..(rows - 1) |-> [j \in 0..(n - 1) |->
              <<Entry(seed + 1, i, j)[1], IF seed < 2 THEN 0 ELSE Entry(seed + 1, i, j)[2]>>]]]

SolveBuffer(seed, nf, naux, part) ==
    [ndim |-> 2,
     d |-> [i \in 0..(nf - 1) |-> [q \in 0..(MaxCols - 1) |->
              Pow2(naux) * Entry(seed + 1, i, q)[part]]]]

SolveCells == {c \in GridCells : NaoNr(c) <= MaxSolve}

InitSolve ==
    /\ \E acell \in SolveCells : Built(acell)
    /\ IdleGrid
    /\ IdleBlk
    /\ IdleAuxe2
    /\ IdleBuild
    /\ IdleLoad
    /\ spc = "call"
    /\ \E seed \in SolveSeeds, tag \in {"CD", "ED"}, rows \in 1..MaxSolve, neg \in BOOLEAN :
          /\ rows <= fuse.naux
          /\ tag = "CD" => rows = fuse.naux
          /\ cd_j2c = [j2c |-> IF tag = "CD" THEN LowerTri(seed, fuse.naux)
                               ELSE EigFactor(seed, rows, fuse.naux),
                       j2c_negative |-> IF neg THEN EigFactor(seed + 1, 1, fuse.naux)
                                        ELSE NoneArr,
                       j2ctag |-> tag]
          /\ sj3cR = SolveBuffer(seed, NaoNr(fused_cell), fuse.naux, 1)
          /\ \E withI \in BOOLEAN :
                sj3cI = IF withI THEN SolveBuffer(seed, NaoNr(fused_cell), fuse.naux, 2)
                        ELSE NoneArr
    /\ sj3c0 = <<sj3cR, sj3cI>>
    /\ cderi = NoneArr
    /\ cderi_negative = NoneArr

\* solve_cderi, lines 274-289.
SolveCderi ==
    /\ spc = "call"
    /\ LET r == solve_cderi(fuse, cd_j2c, sj3cR, sj3cI)
       IN /\ cderi' = r.cderi
          /\ cderi_negative' = r.cderi_negative
          /\ \E ow \in BOOLEAN :
                /\ ow => (cd_j2c.j2ctag = "CD" /\ sj3cI = NoneArr
                          /\ \A i \in DOMAIN r.cderi.d : \A q \in DOMAIN r.cderi.d[i] :
                                r.cderi.d[i][q][2] = 0)
                /\ sj3cR' = J3cRAfter(fuse, cd_j2c, sj3cR, sj3cI, r.cderi, ow)
    /\ spc' = "done"
    /\ UNCHANGED <<cd_j2c, sj3cI, sj3c0, notSolve>>

NextSolve == SolveCderi

SpecSolve == InitSolve /\ [][NextSolve]_vars

(***************************************************************************)
(* SpecAuxe2: outcore_auxe2 (lines 178-187) on a built builder.  The call  *)
(* is followed through its positions: before the call, inside the          *)
(* delegated routine of the base class, and after it returned, raised or   *)
(* failed.  lib.temporary_env and the base class's outcore_auxe2 lie       *)
(* outside this file: the context manager installs the attributes it is    *)
(* given for the body of the with statement and puts the earlier ones back *)
(* when the body is left, by a return or by an exception, as the program   *)
(* does when it is run.                                                    *)
(***************************************************************************)
\* The auxiliary cell the builder was constructed with.
AuxOf(c) ==
    [natm |-> NAtm, cart |-> FALSE, bas |-> <<S1, P1>>,
     dimension |-> c.dimension, omega |-> 0]

\* A builder after build(), with its exclude_d_aux flag (line 66, or the
\* caller's value).
InitAuxe2 ==
    /\ IdleGrid
    /\ IdleBlk
    /\ IdleLoad
    /\ IdleSolve
    /\ apc = "ready"
    /\ exclude_d_aux \in BOOLEAN
    /\ env0 = None
    /\ bpc = "built"
    /\ cell \in Cells
    /\ cfg0 \in {[eta |-> e, mesh |-> Unset, ke_cutoff |-> Unset] : e \in CallerEtas}
    /\ cfg_new = cfg0
    /\ LET sel == SelectMesh(cell, cfg0.eta, cfg0.mesh, cfg0.ke_cutoff)
           r == fuse_auxcell(AuxOf(cell), sel.eta[1])
       IN /\ eta = sel.eta
          /\ mesh = sel.mesh
          /\ ke_cutoff = sel.ke_cutoff
          /\ auxcell = AuxOf(cell)
          /\ chgcell = r.chgcell
          /\ fused_cell = r.fused_cell
          /\ fuse = r.fuse
          /\ rs_auxcell = from_cell(AuxOf(cell), sel.ke_cutoff)
          /\ rs_fused_cell = from_cell(r.fused_cell, sel.ke_cutoff)
    /\ branch = SelectBranch(cfg0.eta, cfg0.mesh, cfg0.ke_cutoff)
    /\ was_reset = FALSE
    /\ fpc = "built"
    /\ Lpq = None /\ Lpq0 = None /\ axis = 0 /\ rets = <<>>

\* Line 180 raises: `assert not self.exclude_d_aux` fails, nothing was
\* substituted and the base routine was not called.
OutcoreAuxe2Fails ==
    /\ apc \in {"ready", "returned", "raised", "failed"}
    /\ exclude_d_aux
    /\ apc' = "failed"
    /\ UNCHANGED <<exclude_d_aux, env0, fuseVars, buildVars, notAuxe2>>

\* Lines 180-186: the assertion passes, the with statement installs
\* auxcell=self.fused_cell and rs_auxcell=self.rs_fused_cell, and the base
\* routine starts.
OutcoreAuxe2Enters ==
    /\ apc \in {"ready", "returned", "raised", "failed"}
    /\ ~exclude_d_aux
    /\ env0' = [auxcell |-> auxcell, rs_auxcell |-> rs_auxcell]
    /\ auxcell' = fused_cell
    /\ rs_auxcell' = rs_fused_cell
    /\ apc' = "inside"
    /\ UNCHANGED <<exclude_d_aux, fpc, chgcell, fused_cell, fuse, Lpq, Lpq0, axis, rets,
                   bpc, cell, eta, mesh, ke_cutoff, cfg0, cfg_new, branch, was_reset,
                   rs_fused_cell, notAuxe2>>

\* The body of the with statement is left, by the return of line 186 (ok)
\* or by an exception of the base routine, and the earlier attributes are
\* back in place.
WithLeaves(ok) ==
    /\ apc = "inside"
    /\ auxcell' = env0.auxcell
    /\ rs_auxcell' = env0.rs_auxcell
    /\ apc' = IF ok THEN "returned" ELSE "raised"
    /\ UNCHANGED <<exclude_d_aux, env0, fpc, chgcell, fused_cell, fuse, Lpq, Lpq0, axis,
                   rets, bpc, cell, eta, mesh, ke_cutoff, cfg0, cfg_new, branch, was_reset,
                   rs_fused_cell, notAuxe2>>

BaseReturns == WithLeaves(TRUE)

BaseRaises == WithLeaves(FALSE)

NextAuxe2 == OutcoreAuxe2Fails \/ OutcoreAuxe2Enters \/ BaseReturns \/ BaseRaises

SpecAuxe2 == InitAuxe2 /\ [][NextAuxe2]_vars

(***************************************************************************)
(* Reading an array along the fused axis: entry at fused index i and other *)
(* index q, whatever the array's shape and the axis.                       *)
(***************************************************************************)
Get(A, ax, i, q) ==
    IF A.ndim = 1 THEN A.d[i] ELSE IF ax = 0 THEN A.d[i][q] ELSE A.d[q][i]
Others(A, ax) ==
    IF A.ndim = 1 THEN {0} ELSE IF ax = 0 THEN DOMAIN A.d[0] ELSE DOMAIN A.d
FusedLen(A, ax) ==
    IF A.ndim = 1 \/ ax = 0 THEN NRows(A) ELSE NCols(A)

\* The (atom, l) pairs occurring among a cell's shells.
Pairs(acell) == {<<acell.bas[i].atom, acell.bas[i].l>> : i \in 1..Len(acell.bas)}

\* Size of the auxiliary basis and of the trailing block, counted shell by shell.
RECURSIVE SumNAng(_, _)
SumNAng(P, cart) ==
    IF P = {} THEN 0
    ELSE LET p == CHOOSE x \in P : TRUE IN NAng(p[2], cart) + SumNAng(P \ {p}, cart)

TrailingZero(A, ax, naux) ==
    \A i \in naux..(FusedLen(A, ax) - 1) : \A q \in Others(A, ax) : Get(A, ax, i, q) = CZero

\* The fused indices of auxiliary shell i (0-based), contraction c, component m.
AuxIdx(acell, i, c, m) == AoLoc(acell.bas, acell.cart, i) + c * NAng(acell.bas[i + 1].l, acell.cart) + m

\* Entry (idx, q) of fuse's k-th result equals v[idx] - n * v[naux + off + m],
\* for every shell, contraction and component; off < 0 means no subtraction.
ResultIs(R, v, ax, n) ==
    LET naux == NaoNr(auxcell)
    IN \A i \in 0..(Len(auxcell.bas) - 1) :
         LET sh == auxcell.bas[i + 1]
             off == fuse.modchg_offset[sh.atom][sh.l]
         IN \A c \in 0..(sh.nctr - 1) : \A m \in 0..(NAng(sh.l, auxcell.cart) - 1) :
              \A q \in Others(v, ax) :
                 LET idx == AuxIdx(auxcell, i, c, m)
                     x == Get(v, ax, idx, q)
                     y == Get(v, ax, naux + off + m, q)
                 IN Get(R, ax, idx, q) =
                       IF off >= 0 THEN <<x[1] - n * y[1], x[2] - n * y[2]>> ELSE x

\* What the Cartesian closure returns after n subtractions, shell by shell:
\* the result has one row per spherical function; a shell with l < 2 holds
\* v - n * (model-charge entries), and a shell with l >= 2 holds, position
\* by position, what CINTc2s_ket_sph is handed: l, npq * nctr with npq
\* doubled for a complex128 array, and the shell's Cartesian rows of
\* v - n * (model-charge entries).  For a spherical basis it is ResultIs.
ReturnIs(R, v, ax, n) ==
    IF ~auxcell.cart THEN FusedLen(R, ax) = NaoNr(auxcell) /\ ResultIs(R, v, ax, n)
    ELSE
    LET naux == NaoNr(auxcell)
        bas == auxcell.bas
        Val(i, r, q) ==
            LET sh == bas[i + 1]
                off == fuse.modchg_offset[sh.atom][sh.l]
                x == Get(v, ax, AoLoc(bas, TRUE, i) + r, q)
                y == Get(v, ax, naux + off + (r % NAng(sh.l, TRUE)), q)
            IN <<x[1] - n * y[1], x[2] - n * y[2]>>
        Block(i) ==
            [r \in 0..(NAng(bas[i + 1].l, TRUE) * bas[i + 1].nctr - 1) |->
                IF v.ndim = 1 THEN Val(i, r, 0) ELSE [q \in Others(v, ax) |-> Val(i, r, q)]]
        npq == (IF v.ndim = 1 THEN 1 ELSE Cardinality(Others(v, ax)))
               * (IF v.dtype = "complex128" THEN 2 ELSE 1)
    IN /\ FusedLen(R, ax) = AoLoc(bas, FALSE, Len(bas))
       /\ \A i \in 0..(Len(bas) - 1) :
             LET sh == bas[i + 1]
                 s0 == AoLoc(bas, FALSE, i)
             IN \A s \in 0..((2 * sh.l + 1) * sh.nctr - 1) : \A q \in Others(v, ax) :
                   Get(R, ax, s0 + s, q) =
                      IF sh.l < 2 THEN Val(i, s, q)
                      ELSE [fn |-> "CINTc2s_ket_sph", l |-> sh.l, nket |-> npq * sh.nctr,
                            cart |-> Block(i),
                            at |-> IF v.ndim = 1 THEN <<s>> ELSE <<s, q>>]

\* C1: when the trailing (model-charge) block of the array handed to fuse is
\* all zero, every call returns the leading naux entries (rows, or columns for
\* axis 1) of that array unchanged; for a Cartesian basis it returns their
\* Cartesian-to-spherical transform: the copy of line 415 for l < 2, and for
\* l >= 2 what CINTc2s_ket_sph makes of the unchanged entries of the shell.
C1_FuseZeroModchg ==
    (fpc = "called" /\ TrailingZero(Lpq0, axis, NaoNr(auxcell)))
        => \A k \in 1..Len(rets) :
              /\ Others(rets[k], axis) = Others(Lpq0, axis)
              /\ IF auxcell.cart
                 THEN ReturnIs(rets[k], Lpq0, axis, 0)
                 ELSE /\ FusedLen(rets[k], axis) = NaoNr(auxcell)
                      /\ \A i \in 0..(NaoNr(auxcell) - 1) : \A q \in Others(Lpq0, axis) :
                            Get(rets[k], axis, i, q) = Get(Lpq0, axis, i, q)

C1_Witness ==
    /\ fpc = "called"
    /\ TrailingZero(Lpq0, axis, NaoNr(auxcell))
    /\ Lpq0.ndim = 2 /\ axis = 1
    /\ \E i \in 1..Len(auxcell.bas) : auxcell.bas[i].l = 2 /\ auxcell.bas[i].nctr = 2
    /\ \E q \in Others(Lpq0, axis) : Get(Lpq0, axis, 0, q) # CZero

\* C2: spherical basis: the result of a call on v, as the call returns it,
\* has naux entries along the fused axis, and
\* for every shell on atom a with angular momentum l, contraction c and
\* component m, result[loc+c(2l+1)+m] = v[loc+c(2l+1)+m] - v[naux+offset[a][l]+m]
\* (a shell with offset -1 is copied); axis 1 is the transpose of axis 0 on the
\* transposed matrix, and a vector is treated like a column.
C2_FuseElementwise ==
    (fpc = "called" /\ ~auxcell.cart /\ Len(rets) = 1)
        => /\ FusedLen(rets[1], axis) = NaoNr(auxcell)
           /\ rets[1].ndim = Lpq0.ndim
           /\ Others(rets[1], axis) = Others(Lpq0, axis)
           /\ ResultIs(rets[1], Lpq0, axis, 1)
           /\ (axis = 1 /\ Lpq0.ndim = 2)
                 => rets[1] = Transpose(FuseRet(fuse, Transpose(Lpq0), 0))

C2_Witness ==
    /\ fpc = "called" /\ ~auxcell.cart /\ Len(rets) = 1
    /\ Lpq0.ndim = 2 /\ axis = 1
    /\ ~TrailingZero(Lpq0, axis, NaoNr(auxcell))
    /\ \E i \in 1..Len(auxcell.bas) : auxcell.bas[i].l = 2 /\ auxcell.bas[i].nctr = 2
    /\ \E q \in Others(Lpq0, axis) : Get(rets[1], axis, 0, q) # Get(Lpq0, axis, 0, q)

\* C3 as claimed: fuse leaves the caller's array unchanged, and two calls on
\* the same array object return the same result.
C3_FusePure ==
    fpc = "called"
        => /\ Lpq = Lpq0
           /\ \A k \in 1..Len(rets) : rets[k] = rets[1]

\* C3 amended: fuse writes the caller's array in place: after n calls the
\* entries of the auxiliary shells hold v - n * (model-charge entries), the
\* trailing block is as it was, and the n-th call returned those entries.
\* For a spherical basis every result is a view of the caller's array, so
\* all n results held show the entries after the n-th call; for a Cartesian
\* basis the k-th result is a new array: the Cartesian-to-spherical
\* transform of the entries after the k-th call, which is those entries
\* for a shell with l < 2 and what CINTc2s_ket_sph makes of them for l >= 2.
C3_FuseInPlace ==
    fpc = "called"
        => /\ \A k \in 1..Len(rets) :
                 ReturnIs(rets[k], Lpq0, axis, IF auxcell.cart THEN k ELSE Len(rets))
           /\ ResultIs(Lpq, Lpq0, axis, Len(rets))
           /\ \A i \in NaoNr(auxcell)..(FusedLen(Lpq0, axis) - 1) : \A q \in Others(Lpq0, axis) :
                 Get(Lpq, axis, i, q) = Get(Lpq0, axis, i, q)

\* Two calls on one matrix, fused along axis 1, of a Cartesian basis with a
\* twice contracted d shell: the matrix has changed and the two results,
\* new arrays, differ.
C3_Witness ==
    /\ fpc = "called"
    /\ auxcell.cart
    /\ \E i \in 1..Len(auxcell.bas) : auxcell.bas[i].l = 2 /\ auxcell.bas[i].nctr = 2
    /\ Lpq0.ndim = 2 /\ axis = 1
    /\ Len(rets) = 2
    /\ rets[1] # rets[2]
    /\ Lpq # Lpq0

\* C4 as claimed: one single-primitive, single-contraction shell of exponent
\* eta per distinct (atom, l) pair, and as many basis functions as pairs.
C4_ModchgOneFunctionPerPair ==
    fpc # "aux"
        => /\ \A i \in 1..Len(chgcell.bas) :
                 chgcell.bas[i].nprim = 1 /\ chgcell.bas[i].nctr = 1
                 /\ chgcell.bas[i].es = <<EtaArg>>
           /\ Pairs(chgcell) = Pairs(auxcell)
           /\ NaoNr(chgcell) = Cardinality(Pairs(auxcell))

\* C4 amended: one such shell per distinct (atom, l) pair, so the number of
\* SHELLS equals the number of pairs; the number of basis functions is the
\* sum over the pairs of the shell's components (2l+1, Cartesian (l+1)(l+2)/2).
C4_ModchgOneShellPerPair ==
    fpc # "aux"
        => /\ \A i \in 1..Len(chgcell.bas) :
                 chgcell.bas[i].nprim = 1 /\ chgcell.bas[i].nctr = 1
                 /\ chgcell.bas[i].es = <<EtaArg>>
           /\ Pairs(chgcell) = Pairs(auxcell)
           /\ Len(chgcell.bas) = Cardinality(Pairs(auxcell))
           /\ NaoNr(chgcell) = SumNAng(Pairs(auxcell), auxcell.cart)

C4_Witness ==
    /\ fpc # "aux"
    /\ Len(auxcell.bas) = 2
    /\ auxcell.bas[1].atom = auxcell.bas[2].atom
    /\ auxcell.bas[1].l = 1 /\ auxcell.bas[2].l = 1
    /\ Len(chgcell.bas) = 1
    /\ NaoNr(chgcell) = 3

\* C5: the fused cell's shells are the auxiliary shells in order, then the
\* model-charge shells, so its first naux functions are the auxiliary ones;
\* offset[a][l] is where the (a, l) model-charge shell starts inside the
\* trailing block when (a, l) occurs among the auxiliary shells and -1
\* otherwise; every auxiliary shell has offset >= 0 and offset + (2l+1) within
\* the trailing block.
C5_FusedLayout ==
    fpc # "aux"
        => LET nb == Len(auxcell.bas)
               naux == NaoNr(auxcell)
               nchg == NaoNr(fused_cell) - naux
               off == fuse.modchg_offset
           IN /\ Len(fused_cell.bas) = nb + Len(chgcell.bas)
              /\ \A i \in 1..nb : fused_cell.bas[i] = auxcell.bas[i]
              /\ \A i \in 1..Len(chgcell.bas) : fused_cell.bas[nb + i] = chgcell.bas[i]
              /\ AoLoc(fused_cell.bas, fused_cell.cart, nb) = naux
              /\ fuse.naux = naux
              /\ DOMAIN off = 0..(auxcell.natm - 1)
              /\ \A a \in DOMAIN off : \A l \in DOMAIN off[a] :
                    IF <<a, l>> \in Pairs(auxcell)
                    THEN \E i \in (nb + 1)..Len(fused_cell.bas) :
                            /\ fused_cell.bas[i].atom = a /\ fused_cell.bas[i].l = l
                            /\ off[a][l] = AoLoc(fused_cell.bas, fused_cell.cart, i - 1) - naux
                    ELSE off[a][l] = -1
              /\ \A i \in 1..nb :
                    LET sh == auxcell.bas[i]
                    IN off[sh.atom][sh.l] >= 0 /\ off[sh.atom][sh.l] + (2 * sh.l + 1) <= nchg

C5_Witness ==
    /\ fpc # "aux"
    /\ Len(auxcell.bas) = 2
    /\ auxcell.bas[1].l = 2 /\ auxcell.bas[2].l = 1
    /\ auxcell.bas[1].atom = 0 /\ auxcell.bas[2].atom = 1
    /\ fuse.modchg_offset[1][1] = 5
    /\ fuse.modchg_offset[0][0] = -1

IsHermitian(M) ==
    \A i \in DOMAIN M.d : \A j \in DOMAIN M.d[i] : M.d[i][j] = CConj(M.d[j][i])

\* C6: for every k-point get_2c2e has finished, whatever the lattice-sum
\* matrix was, the matrix it leaves in j2c[k] is naux x naux and equals its
\* conjugate transpose.
C6_MetricHermitian ==
    gpc \in {"block", "sym", "done"}
        => \A k \in 1..kidx :
              /\ DOMAIN j2c[k].d = 0..(NaoNr(auxcell) - 1)
              /\ \A i \in DOMAIN j2c[k].d : DOMAIN j2c[k].d[i] = 0..(NaoNr(auxcell) - 1)
              /\ IsHermitian(j2c[k])

C6_Witness ==
    /\ gpc = "done"
    /\ Len(uniq_kpts) = 2
    /\ ~IsHermitian(j2c0[2])
    /\ NaoNr(auxcell) >= 3
    /\ \E i \in DOMAIN j2c[2].d : \E j \in DOMAIN j2c[2].d : i # j /\ j2c[2].d[i][j][2] # 0

\* The matrix get_2c2e would hold at line 170 with one block over the grid.
OneBlockJ2c(k) ==
    SubJ2cP(j2c0[k], j2c_p(uniq_kpts[k], 0, ngrids, fuse.naux, NaoNr(fused_cell)), fuse.naux)

\* C7: blocking over the grid does not change the result.  When get_2c2e's
\* block loop ends for a k-point, j2c[k] is what one block [0, ngrids) gives,
\* and so is the matrix returned; when add_ft_j3c calls have covered the grid
\* in consecutive blocks, the buffers are what one call (0, ngrids) gives.
C7_BlockingInvariant ==
    /\ gpc = "sym" => j2c[kidx + 1] = OneBlockJ2c(kidx + 1)
    /\ gpc \in {"block", "sym", "done"}
          => \A k \in 1..kidx :
                j2c[k] = FuseRet(fuse, FuseRet(fuse, Hermitize(OneBlockJ2c(k)), 0), 1)
    /\ gpc = "ftdone"
          => \A k \in DOMAIN j3cR :
                /\ j3cR[k] = AddFtR(j3c0[1][k], uniq_kpts[1], fuse.naux, 0, ngrids, k - 1)
                /\ j3cI[k] = AddFtI(j3c0[2][k], uniq_kpts[1], fuse.naux, 0, ngrids, k - 1)

C7_Witness ==
    /\ gpc = "sym"
    /\ kidx = 1
    /\ ngrids = 3 /\ blksize = 2
    /\ j2c[2] # j2c0[2]
    /\ uniq_kpts[2] # 0

\* C8: the block size is at least 2048 whatever the budget and the size of
\* the fused basis; the blocks of a k-point tile 0..ngrids in increasing
\* order, each grid index in exactly one block, and the loop ends after
\* ceil(ngrids / blksize) blocks, for every k-point.
C8_BlockLoop ==
    gpc \in {"blk", "blkend", "blkdone"}
        => /\ blksize >= MinBlkSize
           /\ \A i \in 1..Len(blocks) :
                 /\ blocks[i][1] = (IF i = 1 THEN 0 ELSE blocks[i - 1][2])
                 /\ blocks[i][1] < blocks[i][2]
                 /\ blocks[i][2] <= ngrids
           /\ blk_p0 = (IF blocks = <<>> \/ gpc = "blkdone" THEN 0 ELSE blocks[Len(blocks)][2])
           /\ Len(blocks) <= (ngrids + blksize - 1) \div blksize
           /\ gpc \in {"blkend", "blkdone"}
                 => /\ blocks[Len(blocks)][2] = ngrids
                    /\ Len(blocks) = (ngrids + blksize - 1) \div blksize
           /\ kidx <= Len(uniq_kpts)
           /\ gpc = "blkdone" <=> kidx = Len(uniq_kpts)

C8_Witness ==
    /\ gpc = "blkend"
    /\ kidx = 1
    /\ max_memory - cur_memory < 0
    /\ blksize = MinBlkSize
    /\ Len(blocks) = 3

\* The stored blocks of the batch, columns col0..col1, as load_j3c lays them
\* out and with nothing subtracted.
AsStored ==
    <<[k \in 1..Len(kpt_ij_idx) |->
         LoadBlock(h5group.j3cR[kpt_ij_idx[k]], NaoNr(fused_cell), cols[1], cols[2])],
      [k \in 1..Len(kpt_ij_idx) |->
         IF h5group.j3cI[kpt_ij_idx[k]] # NoneArr
         THEN LoadBlock(h5group.j3cI[kpt_ij_idx[k]], NaoNr(fused_cell), cols[1], cols[2])
         ELSE NoneArr]>>

\* C9: when the fused cell is not 3-dimensional or its omega is negative,
\* auxbar gives the zero vector; and then, or when the builder's cell is not
\* 3-dimensional, load_j3c returns every stored block of the batch as it is
\* stored, real and imaginary part.
C9_NoBackgroundTerm ==
    lpc \in {"gen", "loader", "loaded"}
        => /\ (fused_cell.dimension # 3 \/ fused_cell.omega < 0)
                 => \A q \in 0..(NaoNr(fused_cell) - 1) : auxbar(fused_cell).d[q] = 0
           /\ (lpc = "loaded"
               /\ (fused_cell.dimension # 3 \/ fused_cell.omega < 0 \/ cell.dimension # 3))
                 => loaded = AsStored

\* The loader of a 3-dimensional cell at the zone centre called auxbar, the
\* kernel is short-range, and the fused cell has s functions.
C9_Witness ==
    /\ lpc = "loaded"
    /\ cell.dimension = 3
    /\ is_zero(loader_kpt)
    /\ fused_cell.dimension = 3
    /\ fused_cell.omega < 0
    /\ \E q \in 0..(NaoNr(fused_cell) - 1) : AuxbarLoop(fused_cell).d[q] # 0
    /\ Len(kpt_ij_idx) = 2
    /\ loaded[2][1] # NoneArr
    /\ cols = <<0, MaxCols>>

IsOddMesh(m) == \A i \in 1..Len(m) : m[i] % 2 = 1

\* C10, as stated: after build() every dimension of the mesh is odd, whatever
\* the caller configured.
C10_MeshAlwaysOdd ==
    bpc = "built" => IsOddMesh(mesh)

\* C10, corrected: after build() every dimension of the mesh is odd when the
\* mesh was unset and build estimated it (eta set, or eta unset and the cell
\* periodic); a mesh the caller set is kept as it is, and with eta and mesh
\* unset a 0-dimensional cell hands over its own mesh as it is.
C10_MeshOddWhenEstimated ==
    bpc = "built"
        => /\ (cfg0.mesh = Unset /\ ~(cfg0.eta = Unset /\ cell.dimension = 0))
                 => IsOddMesh(mesh)
           /\ cfg0.mesh # Unset => mesh = cfg0.mesh
           /\ (cfg0.mesh = Unset /\ cfg0.eta = Unset /\ cell.dimension = 0)
                 => mesh = cell.mesh

\* build() estimated the mesh of a periodic cell whose own mesh has an even
\* dimension, and rounded it.
C10_Witness ==
    /\ bpc = "built"
    /\ cfg0.mesh = Unset
    /\ cfg0.eta = Unset
    /\ cell.dimension = 2
    /\ ~IsOddMesh(cell.mesh)
    /\ mesh # cell.mesh
    /\ IsOddMesh(mesh)

\* C11, as stated: after a reset the builder holds no fused cell and no
\* fuse operator, and the build() that follows it is a full rebuild: it ends
\* with the eta, mesh and ke_cutoff that a new builder with the caller's
\* settings selects for the current cell, and with fused_cell, fuse and
\* rs_fused_cell made anew.
C11_FullRebuild ==
    [][/\ bpc' = "reset" => (fused_cell' = None /\ fuse' = None)
       /\ (bpc = "reset" /\ bpc' = "built")
             => LET sel == SelectMesh(cell, cfg_new.eta, cfg_new.mesh, cfg_new.ke_cutoff)
                IN /\ eta' = sel.eta /\ mesh' = sel.mesh /\ ke_cutoff' = sel.ke_cutoff
                   /\ fused_cell' = fuse_auxcell(auxcell, eta'[1]).fused_cell
                   /\ fuse' = fuse_auxcell(auxcell, eta'[1]).fuse
                   /\ rs_fused_cell' = from_cell(fused_cell', ke_cutoff')]_vars

\* C11, corrected: a reset, after any sequence of build and reset calls and
\* with or without a new cell, clears fused_cell and fuse and leaves eta and
\* mesh as they are.  The build() that follows keeps an eta and a mesh that
\* are set, also when the cell has changed, and selects only what is unset:
\* with eta and mesh set it keeps a ke_cutoff that is set and otherwise takes
\* the smallest cutoff of the kept mesh.  Every build() makes fused_cell,
\* fuse and rs_fused_cell anew from the auxiliary cell and the eta and
\* ke_cutoff it ends with.
C11_ResetKeepsSelection ==
    [][/\ bpc' = "reset"
             => /\ fused_cell' = None
                /\ fuse' = None
                /\ eta' = eta
                /\ mesh' = mesh
       /\ (bpc' = "built" /\ eta # Unset) => eta' = eta
       /\ (bpc' = "built" /\ mesh # Unset) => mesh' = mesh
       /\ (bpc' = "built" /\ eta # Unset /\ mesh # Unset)
             => /\ branch' \in {"ke_cutoff", "none"}
                /\ ke_cutoff # Unset => (ke_cutoff' = ke_cutoff /\ branch' = "none")
                /\ ke_cutoff = Unset
                      => ke_cutoff' = <<MinOver(mesh_to_cutoff(mesh), 3)>>
       /\ (bpc' = "built" /\ eta = Unset) => branch' = "eta"
       /\ bpc' = "built"
             => /\ eta' # Unset /\ mesh' # Unset /\ ke_cutoff' # Unset
                /\ fused_cell' = fuse_auxcell(auxcell, eta'[1]).fused_cell
                /\ fuse' = fuse_auxcell(auxcell, eta'[1]).fuse
                /\ rs_fused_cell' = from_cell(fused_cell', ke_cutoff')]_vars

\* A builder whose first build() selected eta and the mesh was reset with a
\* new cell and built again: it holds an eta that a new builder would not
\* select for the cell it now has.
C11_Witness ==
    /\ bpc = "built"
    /\ was_reset
    /\ cfg_new.eta = Unset
    /\ cfg_new.mesh = Unset
    /\ cell \in ResetCells
    /\ eta # SelectMesh(cell, Unset, Unset, Unset).eta
    /\ IsOddMesh(mesh)
    /\ Len(fused_cell.bas) = 4

\* The buffer handed to solve_cderi, real + i*imag, before the call.
SolveB0 ==
    [i \in DOMAIN sj3c0[1].d |-> [q \in DOMAIN sj3c0[1].d[i] |->
        <<sj3c0[1].d[i][q], IF sj3c0[2] = NoneArr THEN 0 ELSE sj3c0[2].d[i][q]>>]]

\* fuse applied once to that buffer.
SolveFused == FuseRet(fuse, [ndim |-> 2, d |-> SolveB0], 0)

\* C12, as stated: with tag CD the factor times the returned tensor gives
\* back the buffer handed in, on the rows the tensor has.
C12_RoundTripBuffer ==
    (spc = "done" /\ cd_j2c.j2ctag = "CD")
        => \A i \in DOMAIN cderi.d : \A q \in DOMAIN cderi.d[i] :
              MatMul(cd_j2c.j2c, cderi).d[i][q] = SolveB0[i][q]

\* C12, corrected: with tag CD the factor times the returned tensor gives the
\* fused buffer, fuse(j3cR + i*j3cI) or fuse(j3cR): naux rows, the model-charge
\* rows of the buffer subtracted from the auxiliary rows.
C12_RoundTripFused ==
    (spc = "done" /\ cd_j2c.j2ctag = "CD")
        => /\ DOMAIN cderi.d = 0..(fuse.naux - 1)
           /\ MatMul(cd_j2c.j2c, cderi) = SolveFused

\* A factor with a diagonal entry 2 and a complex entry below the diagonal
\* has solved a complex buffer whose model-charge rows are not zero.
C12_Witness ==
    /\ spc = "done"
    /\ cd_j2c.j2ctag = "CD"
    /\ fuse.naux = 2
    /\ cd_j2c.j2c.d[0][0] = <<2, 0>>
    /\ cd_j2c.j2c.d[1][0][2] # 0
    /\ sj3c0[2] # NoneArr
    /\ \E i \in DOMAIN cderi.d : \E q \in DOMAIN cderi.d[i] : cderi.d[i][q][2] # 0
    /\ \E q \in DOMAIN cderi.d[0] : SolveFused.d[0][q] # SolveB0[0][q]

\* C13: solve_cderi returns a negative-branch tensor exactly when the tag is
\* not CD and a negative factor was handed in; with tag CD it returns None
\* for it; and the tensors it returns are the factor, and the negative
\* factor, applied to one fused buffer, fuse(j3cR + i*j3cI) when j3cI exists
\* and fuse(j3cR) otherwise.
C13_NegativeBranch ==
    spc = "done"
        => /\ cderi_negative # NoneArr
                 <=> (cd_j2c.j2ctag # "CD" /\ cd_j2c.j2c_negative # NoneArr)
           /\ cd_j2c.j2ctag = "CD" => cderi_negative = NoneArr
           /\ cd_j2c.j2ctag # "CD" => cderi = MatMul(cd_j2c.j2c, SolveFused)
           /\ cd_j2c.j2ctag = "CD" => MatMul(cd_j2c.j2c, cderi) = SolveFused
           /\ cderi_negative # NoneArr
                 => cderi_negative = MatMul(cd_j2c.j2c_negative, SolveFused)

C13_Witness ==
    /\ spc = "done"
    /\ cd_j2c.j2ctag = "ED"
    /\ cd_j2c.j2c_negative # NoneArr
    /\ sj3c0[2] # NoneArr
    /\ cderi_negative # NoneArr
    /\ NRows(cderi) = 2
    /\ \E q \in DOMAIN cderi_negative.d[0] : cderi_negative.d[0][q][2] # 0

\* sum over G in [q0, q1) of FT(pair q of k-pair k, G) * conj(weighted FT of
\* model charge m at G); k is 0-based.
FtContraction(kpt, naux, q0, q1, k, m, q) ==
    CSumTo([g \in 0..(q1 - q0 - 1) |->
               CMul(FtPair(k, q0 + g, q), CConj(weighted_ft_ao(kpt, naux, q0 + g, m)))],
           q1 - q0)

\* C14: a call add_ft_j3c(j3c, Gpq, Gaux, p0, p1) leaves the leading naux rows
\* of every k-pair buffer as they are; in the trailing rows the real buffer
\* decreases by the real part and the imaginary buffer by the imaginary part
\* of the contraction over G in [p0, p1); an imaginary buffer that is None
\* stays None.
C14_AddFtTrailingRows ==
    [][gpc = "ft"
        => \A k \in DOMAIN j3cR :
              /\ DOMAIN j3cR'[k].d = DOMAIN j3cR[k].d
              /\ \A i \in DOMAIN j3cR[k].d : \A q \in DOMAIN j3cR[k].d[i] :
                    j3cR'[k].d[i][q] =
                       IF i < fuse.naux THEN j3cR[k].d[i][q]
                       ELSE j3cR[k].d[i][q]
                            - FtContraction(uniq_kpts[1], fuse.naux, blk_p0, blk_p0',
                                            k - 1, i - fuse.naux, q)[1]
              /\ j3cI[k] = NoneArr => j3cI'[k] = NoneArr
              /\ j3cI[k] # NoneArr
                    => \A i \in DOMAIN j3cI[k].d : \A q \in DOMAIN j3cI[k].d[i] :
                          j3cI'[k].d[i][q] =
                             IF i < fuse.naux THEN j3cI[k].d[i][q]
                             ELSE j3cI[k].d[i][q]
                                  - FtContraction(uniq_kpts[1], fuse.naux, blk_p0, blk_p0',
                                                  k - 1, i - fuse.naux, q)[2]]_vars

\* Two calls have covered a grid of three points; one k-pair has an imaginary
\* buffer, which changed, and the other has none.
C14_Witness ==
    /\ gpc = "ftdone"
    /\ ngrids = 3
    /\ uniq_kpts[1] # 0
    /\ j3cR # j3c0[1]
    /\ j3cI[1] = NoneArr
    /\ j3cI[2] # NoneArr
    /\ j3cI[2] # j3c0[2][2]
    /\ \A i \in 0..(fuse.naux - 1) : j3cR[1].d[i] = j3c0[1][1].d[i]

\* C16: one pass of get_2c2e's block loop leaves the leading naux x naux
\* block of j2c[k] as it is and changes no other k-point's matrix; the amount
\* it subtracts, as a matrix over the fused basis, equals its conjugate
\* transpose, so the leading-trailing part is the conjugate transpose of the
\* trailing-leading part.
C16_CorrectionHermitian ==
    [][gpc = "block"
        => LET k == kidx + 1
               D(i, j) == CSub(j2c[k].d[i][j], j2c'[k].d[i][j])
           IN /\ \A kk \in DOMAIN j2c : kk # k => j2c'[kk] = j2c[kk]
              /\ \A i \in DOMAIN j2c[k].d : \A j \in DOMAIN j2c[k].d :
                    /\ (i < fuse.naux /\ j < fuse.naux) => D(i, j) = CZero
                    /\ D(i, j) = CConj(D(j, i))]_vars

\* The blocks of a k-point away from the zone centre have changed a
\* leading-trailing entry of its matrix by a complex amount and left the
\* leading block alone.
C16_Witness ==
    /\ gpc = "sym"
    /\ kidx = 1
    /\ uniq_kpts[2] # 0
    /\ blksize < ngrids
    /\ \E i \in 0..(fuse.naux - 1) : \E j \in fuse.naux..(NaoNr(fused_cell) - 1) :
          CSub(j2c0[2].d[i][j], j2c[2].d[i][j])[2] # 0
    /\ \A i \in 0..(fuse.naux - 1) : \A j \in 0..(fuse.naux - 1) :
          j2c[2].d[i][j] = j2c0[2].d[i][j]

\* The correction is applied: the cell is 3-dimensional, the k-point
\* difference is zero and vbar has an entry that is not zero.
LoaderCorrects ==
    /\ cell.dimension = 3
    /\ is_zero(loader_kpt)
    /\ \E q \in 0..(NaoNr(fused_cell) - 1) : auxbar(fused_cell).d[q] # 0

\* C15: load_j3c(col0, col1) subtracts the background term exactly when the
\* cell is 3-dimensional, the k-point difference is zero and vbar has a
\* nonzero entry.  Then, for every k-pair kk of the batch, row p and column q
\* of [col0, col1), it returns stored - vbar[p] * ovlp[kk mod nkpts][q], the
\* real part in the real block and the imaginary part in the imaginary
\* block, which is None when no imaginary dataset is stored; otherwise it
\* returns the stored values.
C15_LoaderCorrection ==
    lpc = "loaded"
        => IF LoaderCorrects
           THEN \A k \in 1..Len(kpt_ij_idx) :
                   LET kk == kpt_ij_idx[k]
                       vb == auxbar(fused_cell).d
                   IN /\ \A p \in 0..(NaoNr(fused_cell) - 1) :
                            \A q \in cols[1]..(cols[2] - 1) :
                               loaded[1][k].d[p][q - cols[1]]
                                  = h5group.j3cR[kk].d[q][p] - vb[p] * Ovlp(kk % NKpts, q)[1]
                      /\ h5group.j3cI[kk] = NoneArr => loaded[2][k] = NoneArr
                      /\ h5group.j3cI[kk] # NoneArr
                            => \A p \in 0..(NaoNr(fused_cell) - 1) :
                                  \A q \in cols[1]..(cols[2] - 1) :
                                     loaded[2][k].d[p][q - cols[1]]
                                        = h5group.j3cI[kk].d[q][p]
                                          - vb[p] * Ovlp(kk % NKpts, q)[2]
           ELSE loaded = AsStored

\* A batch of two k-pairs with imaginary datasets was loaded from column 1
\* on, and both parts of the second pair were corrected.
C15_Witness ==
    /\ lpc = "loaded"
    /\ LoaderCorrects
    /\ Len(kpt_ij_idx) = 2
    /\ cols[1] > 0
    /\ loaded[2][2] # NoneArr
    /\ loaded[1][2] # AsStored[1][2]
    /\ loaded[2][2] # AsStored[2][2]

\* C18: build() only fills in configuration that is unset.  An eta and a
\* mesh the caller set are the same after build(), whatever the cell's
\* dimension; after build() eta, mesh and ke_cutoff are all set; and the
\* model charges, the fused cell and the fuse operator are those
\* fuse_auxcell makes for the auxiliary cell and that final eta.
C18_BuildFillsUnset ==
    bpc = "built"
        => /\ cfg0.eta # Unset => eta = cfg0.eta
           /\ cfg0.mesh # Unset => mesh = cfg0.mesh
           /\ Len(eta) = 1
           /\ Len(mesh) = 3
           /\ Len(ke_cutoff) = 1
           /\ chgcell = make_modchg_basis(auxcell, eta[1])
           /\ fused_cell = fuse_auxcell(auxcell, eta[1]).fused_cell
           /\ fuse = fuse_auxcell(auxcell, eta[1]).fuse

\* The first build() of a periodic cell found eta and ke_cutoff for a mesh
\* the caller set, which has an even dimension and is not the cell's own.
C18_Witness ==
    /\ bpc = "built"
    /\ ~was_reset
    /\ branch = "eta"
    /\ cfg0.mesh # Unset
    /\ cell.dimension = 2
    /\ mesh # cell.mesh
    /\ mesh # round_off_to_odd_mesh(mesh)
    /\ Len(eta) = 1
    /\ Len(fused_cell.bas) = 4

====
